---- MODULE Spec2Model ----
(***************************************************************************)
(* A model of the SSH server core of ssssh:                                *)
(*   - the connection dispatcher (src/src/connection.rs): the select loop  *)
(*     of run0 over the inbound stream and the outbound queue, the key     *)
(*     exchange driven from on_kexinit, the channel handlers, the error    *)
(*     branch of run;                                                      *)
(*   - the binary packet protocol codec (src/src/stream/bpp.rs): pad_len,  *)
(*     the writer start_send and the reader poll_next, byte by byte.       *)
(* Spec is the dispatcher around the key exchange, SpecConn the dispatcher *)
(* once the keys are installed (services, authentication, channels),       *)
(* SpecBpp the codec, SpecPad the padding of start_send, SpecRekey the     *)
(* codec across NEWKEYS and change_key, SpecHostkey the host-key selection *)
(* of on_kexinit.                                                          *)
(***************************************************************************)
EXTENDS Integers, Sequences, FiniteSets, TLC

VARIABLES
    \* ---- dispatcher (connection.rs) ----
    pc,              \* position of the connection task
    timeout,         \* Connection.timeout: "none" | "some"
    inbound,         \* messages the transport has received and rx has not yet yielded
    rxEnded,         \* the peer closed its side: rx yields None once inbound is empty
    peerSent,        \* number of packets the peer has sent: the next inbound sequence number
    cur,             \* the inbound item the select arm is handling
    reply,           \* the message the handler is about to pass to self.send
    outq,            \* the mpsc outbound queue (message_send -> message_receive)
    nextId,          \* enqueue stamp of the next message put on outq
    hsent,           \* number of messages the handler tasks have enqueued
    wire,            \* messages written to the transport sink tx, in order
    txFailed,        \* a write to the transport sink has failed
    channel_handles, \* keys of Connection.channel_handles
    auth_handle,     \* Connection.auth_handle is Some
    keyEpoch,        \* number of completed state.change_key calls
    err,             \* the error run0 returned
    kexCause,        \* the error boxed in ConnectionError::KexError
    kexGot,          \* the kind of the unexpected message that error carries
    registryBefore,  \* the channel ids registered when the CHANNEL_OPEN being answered was taken
    runResult,       \* what run returned: "running" | "Ok" | the error
    \* ---- history of the dispatcher ----
    handled,         \* sequence numbers of the inbound items consumed, in order
    active,          \* sequence numbers of select arms begun and not finished
    hresult,         \* what the handler operation awaited last returned
    pendingAtKex,    \* stamps of the messages in outq when the last KEXINIT was taken
    permitted,       \* per channel: bytes the peer has permitted the server to send
    granted,         \* per channel: bytes the server has granted the peer, minus the
                     \* CHANNEL_DATA bytes handed to the handler
    sentBytes,       \* per channel: CHANNEL_DATA bytes written to the transport
    \* -- the packet codec (stream/bpp.rs) --
    enc,             \* cipher of the transport state, the same in the writer and in the matching reader
    macalg,          \* MAC algorithm of the transport state
    txseq,           \* writer: outbound sequence counter
    txpos,           \* writer: position in the cipher's key stream
    txbuf0,          \* writer: txbuf.0, encrypted bytes not yet flushed
    txbuf1,          \* writer: txbuf.1, the plaintext packet under construction
    padInput,        \* length of the item handed to the packet builder
    sock,            \* bytes written to the socket and not yet read
    eof,             \* the writing side has shut the socket down
    rdTotal,         \* bytes the reader has taken from the socket so far
    rxbuf0,          \* reader: rxbuf.0, encrypted bytes
    rxbuf1,          \* reader: rxbuf.1, plaintext staging buffer
    rxstate,         \* reader: DecryptState
    rxseq,           \* reader: inbound sequence counter
    rxpos,           \* reader: position in the cipher's key stream
    rxresult,        \* what the stream returned last: open, None, an error, or a panic
    delivered,       \* payloads the reader has delivered, in order
    sent,            \* payloads handed to start_send, in order
    declared,        \* packet_length of every first block the reader has decrypted
    tamper,          \* the one modification made to the bytes in flight, if any
    conn,            \* the task that polls the reader: running, failed, panicked
    txenc,           \* writer: the cipher of the state it sends under
    txmac,           \* writer: the MAC of the state it sends under
    newkeys,         \* the transport states negotiated so far, in order
    client_hostkey,  \* server_host_key_algorithms of the client's KEXINIT, in order
    preference,      \* the host-key algorithms of the server's Preference, in order
    hostkeys,        \* algorithms of the loaded HostKeys, in order
    selected         \* what the host-key selection of on_kexinit came to

dvars == <<pc, timeout, inbound, rxEnded, peerSent, cur, reply, outq, nextId, hsent,
           wire, txFailed, channel_handles, auth_handle, keyEpoch, err, kexCause, kexGot, registryBefore,
           runResult,
           handled, active, hresult, pendingAtKex, permitted, granted, sentBytes>>

bvars == <<enc, macalg, txseq, txpos, txbuf0, txbuf1, padInput, sock, eof, rdTotal,
           rxbuf0, rxbuf1, rxstate, rxseq, rxpos, rxresult, delivered, sent,
           declared, tamper, conn, txenc, txmac, newkeys>>

kvars == <<client_hostkey, preference, hostkeys, selected>>

vars == <<dvars, bvars, kvars>>

----------------------------------------------------------------------------
(* Bounds of the model *)

\* packets the peer sends on one connection
MaxInbound == 4
\* packets the peer sends on one connection whose keys are installed
MaxConnInbound == 3
\* packets received and not yet taken by the dispatcher
MaxInFlight == 1
\* messages the handler tasks enqueue through their handles
MaxHandlerMsgs == 1
\* capacity of the outbound queue (the code: 0xFFFF plus one slot per sender)
QueueCap == 3

\* channel ids, window sizes and data lengths in use
ChanIds == {0}
Windows == {1}
DataLens == {1, 2}

----------------------------------------------------------------------------
(* Messages: one record shape for every variant *)

Msg(kind, ch, n, wr, sub) == [kind |-> kind, ch |-> ch, n |-> n, wr |-> wr, sub |-> sub]

\* overlap: every category of the client's lists meets the server's preference;
\* hostkey = 1: a host key is loaded for the negotiated host-key algorithm
Kexinit(overlap, hostkey) == Msg("Kexinit", 0, hostkey, overlap, "")
KexEcdhInit == Msg("KexEcdhInit", 0, 0, FALSE, "")
KexEcdhReply == Msg("KexEcdhReply", 0, 0, FALSE, "")
Newkeys == Msg("Newkeys", 0, 0, FALSE, "")
Disconnect(code, text) == Msg("Disconnect", 0, code, FALSE, text)
Unimplemented(seq) == Msg("Unimplemented", 0, seq, FALSE, "")
ChannelOpen(type, sender, window) == Msg("ChannelOpen", sender, window, FALSE, type)
ChannelOpenConfirmation(recipient, sender, window) ==
    Msg("ChannelOpenConfirmation", recipient, window, FALSE, "")
ChannelOpenFailure(recipient, reason) == Msg("ChannelOpenFailure", recipient, 0, FALSE, reason)
ChannelRequest(ch, type, want_reply) == Msg("ChannelRequest", ch, 0, want_reply, type)
ChannelSuccess(ch) == Msg("ChannelSuccess", ch, 0, FALSE, "")
ChannelFailure(ch) == Msg("ChannelFailure", ch, 0, FALSE, "")
ChannelData(ch, len) == Msg("ChannelData", ch, len, FALSE, "")
ChannelWindowAdjust(ch, n) == Msg("ChannelWindowAdjust", ch, n, FALSE, "")
ChannelEof(ch) == Msg("ChannelEof", ch, 0, FALSE, "")
ChannelClose(ch) == Msg("ChannelClose", ch, 0, FALSE, "")
ServiceRequest(name) == Msg("ServiceRequest", 0, 0, FALSE, name)
ServiceAccept(name) == Msg("ServiceAccept", 0, 0, FALSE, name)
\* for_connection: service_name is "ssh-connection"; method "publickey-signed"
\* is publickey with a signature, "password-change" password with a new password
UserauthRequest(for_connection, method) == Msg("UserauthRequest", 0, 0, for_connection, method)
UserauthSuccess == Msg("UserauthSuccess", 0, 0, FALSE, "")
\* the name list is always vec!["publickey", "password"]
UserauthFailure(partial_success) == Msg("UserauthFailure", 0, 0, partial_success, "publickey,password")
UserauthPkOk == Msg("UserauthPkOk", 0, 0, FALSE, "")
UserauthPasswdChangereq == Msg("UserauthPasswdChangereq", 0, 0, FALSE, "")
GlobalRequest(want_reply) == Msg("GlobalRequest", 0, 0, want_reply, "")
RequestFailure == Msg("RequestFailure", 0, 0, FALSE, "")
Ignore == Msg("Ignore", 0, 0, FALSE, "")
Debug == Msg("Debug", 0, 0, FALSE, "")
\* a packet whose type code names no message the server decodes
Unknown == Msg("Unknown", 0, 0, FALSE, "")
\* the transport yields Err for a packet it cannot decode
StreamError == Msg("StreamError", 0, 0, FALSE, "")

NoMsg == Msg("none", 0, 0, FALSE, "")
NoItem == [seq |-> -1, m |-> NoMsg]

\* what the peer may send
PeerMsgs ==
    {Kexinit(TRUE, 1), Kexinit(FALSE, 1)}
    \cup {KexEcdhInit, Newkeys, Disconnect(11, "bye"), StreamError, Unknown}
    \cup {ChannelOpen(t, c, w) : t \in {"session", "x11"}, c \in ChanIds, w \in Windows}
    \cup {ChannelRequest(c, "shell", w) : c \in ChanIds, w \in BOOLEAN}
    \cup {ChannelWindowAdjust(c, n) : c \in ChanIds, n \in Windows}

\* the request methods of USERAUTH_REQUEST
AuthMethods == {"none", "publickey", "publickey-signed", "password", "password-change", "hostbased"}

\* what the peer may send once the keys are installed
ConnMsgs ==
    {ServiceRequest(n) : n \in {"ssh-userauth", "ssh-connection"}}
    \cup {UserauthRequest(TRUE, m) : m \in AuthMethods}
    \cup {UserauthRequest(FALSE, "none")}
    \cup {ChannelOpen("session", c, w) : c \in ChanIds, w \in Windows}
    \cup {ChannelRequest(c, t, w) : c \in ChanIds, t \in {"shell", "env"}, w \in BOOLEAN}
    \cup {ChannelData(c, 1) : c \in ChanIds}
    \cup {ChannelEof(c) : c \in ChanIds}
    \cup {ChannelClose(c) : c \in ChanIds}
    \cup {GlobalRequest(w) : w \in BOOLEAN}
    \cup {Ignore, Debug, Unimplemented(0), Unknown, Disconnect(11, "bye")}

\* messages of the key exchange
KexKinds == {"Kexinit", "KexEcdhReply", "Newkeys"}

\* messages the match of run0 has no arm for
NoArmKinds == {"KexEcdhInit", "KexEcdhReply", "Newkeys", "Debug", "Unknown"}

\* positions of the task inside on_kexinit
KexPcs == {"kex_init", "kex_newkeys"}

Last(s) == s[Len(s)]
IsPrefix(s, t) == Len(s) <= Len(t) /\ SubSeq(t, 1, Len(s)) = s

----------------------------------------------------------------------------
(* Init: the Connection that establish returns, before run *)

ConnectionNew ==
    /\ pc = "start"
    /\ timeout \in {"none", "some"}
    /\ inbound = <<>>
    /\ rxEnded = FALSE
    /\ peerSent = 0
    /\ cur = NoItem
    /\ reply = NoMsg
    /\ outq = <<>>
    /\ nextId = 1
    /\ hsent = 0
    /\ wire = <<>>
    /\ txFailed = FALSE
    /\ channel_handles = {}
    /\ auth_handle = FALSE
    /\ keyEpoch = 0
    /\ err = "none"
    /\ kexCause = "none"
    /\ kexGot = "none"
    /\ registryBefore = {}
    /\ runResult = "running"
    /\ handled = <<>>
    /\ active = {}
    /\ hresult = "none"
    /\ pendingAtKex = {}
    /\ permitted = [c \in ChanIds |-> 0]
    /\ granted = [c \in ChanIds |-> 0]
    /\ sentBytes = [c \in ChanIds |-> 0]

\* the host keys and the preference the server is constructed with
HostkeysNew ==
    /\ client_hostkey = <<>>
    /\ preference = <<"ssh-ed25519">>
    /\ hostkeys = <<"ssh-ed25519">>
    /\ selected = "pending"

----------------------------------------------------------------------------
(* The packet codec: stream/bpp.rs *)

\* packets the writer encodes on one connection
MaxPackets == 2
\* the socket hands the reader either everything it holds or this many bytes
ReadChunk == 12
\* longest item handed to the packet builder
MaxItemLen == 40

MAXIMUM_PACKET_SIZE == 35000
MINIMUM_PAD_SIZE == 4

\* the ciphers and MACs of the transport states: none/none until the first
\* NEWKEYS, a negotiated cipher with or without a MAC afterwards
Ciphers == {"none", "aes-ctr"}
Macs == {"none", "hmac"}
TransportStates == {<<"none", "none">>, <<"aes-ctr", "hmac">>, <<"aes-ctr", "none">>}

\* lengths of the payloads the writer is given, and the bytes the random
\* padding is filled with
PayloadLens == {0, 8}
PadFills == {0, 255}
Payload(n) == [i \in 1..n |-> 100 + i]
Payloads == {Payload(n) : n \in PayloadLens}

block_size(e) == IF e = "none" THEN 8 ELSE 16
mac_length(m) == IF m = "none" THEN 0 ELSE 2

Bit(b, k) == (b \div (2 ^ k)) % 2
FlipBit(b, k) == IF Bit(b, k) = 1 THEN b - 2 ^ k ELSE b + 2 ^ k
Xor(a, b) ==
    LET x(k) == ((Bit(a, k) + Bit(b, k)) % 2) * 2 ^ k
    IN  x(0) + x(1) + x(2) + x(3) + x(4) + x(5) + x(6) + x(7)

\* the cipher's update: the identity for none, for aes-ctr the exclusive or
\* with a key stream that runs on from packet to packet
KeyStream(pos) == (pos * 37 + 11) % 256
update(e, pos, data) ==
    IF e = "none" THEN data
    ELSE [i \in 1..Len(data) |-> Xor(data[i], KeyStream(pos + i - 1))]

\* the MAC over sequence_number || plaintext: a tag that any change of one
\* byte of the plaintext, or of the sequence number, changes
RECURSIVE WeightedSum(_, _)
WeightedSum(s, i) == IF i > Len(s) THEN 0 ELSE i * s[i] + WeightedSum(s, i + 1)
sign(m, seq, plain) ==
    IF m = "none" THEN <<>>
    ELSE LET v == (seq * 8191 + Len(plain) * 257 + WeightedSum(plain, 1)) % 65521
         IN  <<v \div 256, v % 256>>
verify(m, seq, plain, expect) == sign(m, seq, plain) = expect

get_and_inc_seq(seq) == [seq |-> seq, next |-> seq + 1]

compress(item) == item
decompress(payload) == payload

put_u32(n) == <<n \div 16777216, (n \div 65536) % 256, (n \div 256) % 256, n % 256>>
\* a length of 2^30 or more stands for itself or anything larger: it is only
\* ever compared with MAXIMUM_PACKET_SIZE
get_u32(s) ==
    IF s[1] >= 64 THEN 1073741824
    ELSE s[1] * 16777216 + s[2] * 65536 + s[3] * 256 + s[4]

pad_len_unpadded(len, bs) == bs - ((1 + len + MINIMUM_PAD_SIZE) % bs)

pad_len(len, bs) ==
    LET pad == (1 + len + MINIMUM_PAD_SIZE) % bs
    IN  IF pad > bs - MINIMUM_PAD_SIZE THEN bs * 2 - pad ELSE bs - pad

\* start_send, the plaintext packet put into txbuf.1
PlainPacket(item, bs, fill) ==
    LET padding_length == pad_len(Len(item), bs)
        len == Len(item) + padding_length + 1
    IN  put_u32(len) \o <<padding_length % 256>> \o item \o [i \in 1..padding_length |-> fill]

TooLargeInclusive(len, maclen) == len + 4 + maclen >= MAXIMUM_PACKET_SIZE
TooLarge(len, maclen) == len + 4 + maclen > MAXIMUM_PACKET_SIZE

WithPadding(plain, len, pad) == SubSeq(plain, 6, len + 4)
PayloadOf(plain, len, pad) == SubSeq(plain, 6, len + 4 - pad)

VerifySkipped(m, seq, plain, len, expect) == TRUE
Verified(m, seq, plain, len, expect) == verify(m, seq, SubSeq(plain, 1, len + 4), expect)

FillFirst == [st |-> "FillFirst", len |-> 0]
FillRemaining(len) == [st |-> "FillRemaining", len |-> len]

NoTamper == [kind |-> "none", abs |-> -1, bit |-> -1]

BppNew ==
    /\ enc = "none" /\ macalg = "none"
    /\ txenc = "none" /\ txmac = "none" /\ newkeys = <<>>
    /\ txseq = 0 /\ txpos = 0 /\ txbuf0 = <<>> /\ txbuf1 = <<>> /\ padInput = 0
    /\ sock = <<>> /\ eof = FALSE /\ rdTotal = 0
    /\ rxbuf0 = <<>> /\ rxbuf1 = <<>> /\ rxstate = FillFirst
    /\ rxseq = 0 /\ rxpos = 0 /\ rxresult = "open"
    /\ delivered = <<>> /\ sent = <<>> /\ declared = <<>>
    /\ tamper = NoTamper /\ conn = "running"


\* what one call of poll_next leaves behind
Polled(b0, b1, st, seq, pos, res, out, decl) ==
    [rxbuf0 |-> b0, rxbuf1 |-> b1, rxstate |-> st, rxseq |-> seq, rxpos |-> pos,
     result |-> res, deliver |-> out, declared |-> decl]

\* a FillRemaining arm that returns the packet without going back to FillFirst
FillRemainingArmStays(buf0, plain1, pos, len, decl) ==
    LET bs == block_size(enc)
        ml == mac_length(macalg)
    IN  IF Len(buf0) < len + 4 + ml
        THEN Polled(buf0, plain1, FillRemaining(len), rxseq, pos, "open", <<>>, decl)
        ELSE IF len + 4 < bs
        THEN Polled(buf0, plain1, FillRemaining(len), rxseq, pos, "panic", <<>>, decl)
        ELSE
        LET buf == SubSeq(buf0, 1, len + 4 + ml)
            rest == SubSeq(buf0, len + 4 + ml + 1, Len(buf0))
            plain == plain1 \o update(enc, pos, SubSeq(buf, bs + 1, len + 4))
            expect == SubSeq(buf, len + 5, len + 4 + ml)
            s == get_and_inc_seq(rxseq)
            pos2 == pos + (len + 4 - bs)
            pad == plain[5]
        IN  IF ~Verified(macalg, s.seq, plain, len, expect)
            THEN Polled(rest, <<>>, FillRemaining(len), s.next, pos2, "MacMismatch", <<>>, decl)
            ELSE IF len + 4 - pad < 5
            THEN Polled(rest, <<>>, FillRemaining(len), s.next, pos2, "panic", <<>>, decl)
            ELSE Polled(rest, <<>>, FillRemaining(len), s.next, pos2, "open",
                        <<decompress(PayloadOf(plain, len, pad))>>, decl)

\* poll_next, the FillRemaining arm: buf0 is rxbuf.0, plain1 is rxbuf.1
FillRemainingArm(buf0, plain1, pos, len, decl) ==
    LET bs == block_size(enc)
        ml == mac_length(macalg)
    IN  IF Len(buf0) < len + 4 + ml
        THEN Polled(buf0, plain1, FillRemaining(len), rxseq, pos, "open", <<>>, decl)
        ELSE IF len + 4 < bs
        THEN Polled(buf0, plain1, FillRemaining(len), rxseq, pos, "panic", <<>>, decl)
        ELSE
        LET buf == SubSeq(buf0, 1, len + 4 + ml)
            rest == SubSeq(buf0, len + 4 + ml + 1, Len(buf0))
            plain == plain1 \o update(enc, pos, SubSeq(buf, bs + 1, len + 4))
            expect == SubSeq(buf, len + 5, len + 4 + ml)
            s == get_and_inc_seq(rxseq)
            pos2 == pos + (len + 4 - bs)
            pad == plain[5]
        IN  IF ~Verified(macalg, s.seq, plain, len, expect)
            THEN Polled(rest, <<>>, FillRemaining(len), s.next, pos2, "MacMismatch", <<>>, decl)
            ELSE IF len + 4 - pad < 5
            THEN Polled(rest, <<>>, FillRemaining(len), s.next, pos2, "panic", <<>>, decl)
            ELSE Polled(rest, <<>>, FillFirst, s.next, pos2, "open",
                        <<decompress(PayloadOf(plain, len, pad))>>, decl)

\* poll_next, the FillFirst arm, falling through to FillRemaining
FillFirstArm(buf0) ==
    LET bs == block_size(enc)
    IN  IF Len(buf0) < bs
        THEN Polled(buf0, rxbuf1, FillFirst, rxseq, rxpos, "open", <<>>, <<>>)
        ELSE
        LET plain1 == rxbuf1 \o update(enc, rxpos, SubSeq(buf0, 1, bs))
            len == get_u32(plain1)
        IN  IF TooLarge(len, mac_length(macalg))
            THEN Polled(buf0, plain1, FillFirst, rxseq, rxpos + bs, "TooLargePacket", <<>>, <<len>>)
            ELSE FillRemainingArm(buf0, plain1, rxpos + bs, len, <<len>>)

\* poll_next after poll_read_buf has put k bytes into rxbuf.0; with no byte
\* to read the socket reports end of file (Ok(0)) or Pending
poll_next(k) ==
    IF k = 0 /\ eof
    THEN Polled(rxbuf0, rxbuf1, rxstate, rxseq, rxpos, "None", <<>>, <<>>)
    ELSE IF rxstate.st = "FillFirst"
    THEN FillFirstArm(rxbuf0 \o SubSeq(sock, 1, k))
    ELSE FillRemainingArm(rxbuf0 \o SubSeq(sock, 1, k), rxbuf1, rxpos, rxstate.len, <<>>)

\* the byte counts poll_read_buf can return
ReadSizes ==
    IF sock = <<>> THEN {0}
    ELSE {Len(sock)} \cup {c \in {ReadChunk} : c < Len(sock)}

PollNext ==
    /\ conn = "running"
    /\ rxresult = "open"
    /\ \E k \in ReadSizes : \E r \in {poll_next(k)} :
            /\ sock' = SubSeq(sock, k + 1, Len(sock))
            /\ rdTotal' = rdTotal + k
            /\ rxbuf0' = r.rxbuf0
            /\ rxbuf1' = r.rxbuf1
            /\ rxstate' = r.rxstate
            /\ rxseq' = r.rxseq
            /\ rxpos' = r.rxpos
            /\ rxresult' = r.result
            /\ delivered' = delivered \o r.deliver
            /\ declared' = declared \o r.declared
    /\ UNCHANGED <<dvars, enc, macalg, txseq, txpos, txbuf0, txbuf1, padInput, eof, sent,
                   tamper, conn, txenc, txmac, newkeys, kvars>>

\* run0: the error of the stream ends the loop (m??), a panic unwinds the task
Run0Fails ==
    /\ conn = "running"
    /\ rxresult \notin {"open", "None"}
    /\ conn' = IF rxresult = "panic" THEN "panicked" ELSE "failed"
    /\ UNCHANGED <<dvars, enc, macalg, txseq, txpos, txbuf0, txbuf1, padInput, sock, eof,
                   rdTotal, rxbuf0, rxbuf1, rxstate, rxseq, rxpos, rxresult, delivered,
                   sent, declared, tamper, txenc, txmac, newkeys, kvars>>

StartSend ==
    /\ Len(sent) < MaxPackets
    /\ ~eof
    /\ \E item \in Payloads, fill \in PadFills :
        LET plain == PlainPacket(compress(item), block_size(txenc), fill)
            s == get_and_inc_seq(txseq)
        IN  /\ txbuf0' = txbuf0 \o update(txenc, txpos, plain) \o sign(txmac, s.seq, plain)
            /\ txpos' = txpos + Len(plain)
            /\ txseq' = s.next
            /\ sent' = Append(sent, item)
    /\ UNCHANGED <<dvars, enc, macalg, txbuf1, padInput, sock, eof, rdTotal, rxbuf0,
                   rxbuf1, rxstate, rxseq, rxpos, rxresult, delivered, declared, tamper,
                   conn, txenc, txmac, newkeys, kvars>>

PollFlush ==
    /\ txbuf0 # <<>>
    /\ sock' = sock \o txbuf0
    /\ txbuf0' = <<>>
    /\ UNCHANGED <<dvars, enc, macalg, txseq, txpos, txbuf1, padInput, eof, rdTotal,
                   rxbuf0, rxbuf1, rxstate, rxseq, rxpos, rxresult, delivered, sent,
                   declared, tamper, conn, txenc, txmac, newkeys, kvars>>

\* the writing side closes the socket
Shutdown ==
    /\ ~eof
    /\ txbuf0 = <<>>
    /\ eof' = TRUE
    /\ UNCHANGED <<dvars, enc, macalg, txseq, txpos, txbuf0, txbuf1, padInput, sock,
                   rdTotal, rxbuf0, rxbuf1, rxstate, rxseq, rxpos, rxresult, delivered,
                   sent, declared, tamper, conn, txenc, txmac, newkeys, kvars>>

\* one bit of one byte in flight is flipped
FlipOneBit ==
    /\ tamper = NoTamper
    /\ \E i \in 1..Len(sock), k \in 0..7 :
        /\ sock' = [sock EXCEPT ![i] = FlipBit(@, k)]
        /\ tamper' = [kind |-> "flip", abs |-> rdTotal + i - 1, bit |-> k]
    /\ UNCHANGED <<dvars, enc, macalg, txseq, txpos, txbuf0, txbuf1, padInput, eof,
                   rdTotal, rxbuf0, rxbuf1, rxstate, rxseq, rxpos, rxresult, delivered,
                   sent, declared, conn, txenc, txmac, newkeys, kvars>>

\* the lengths a peer declares around the limit, and one far beyond it
DeclaredLens ==
    {MAXIMUM_PACKET_SIZE - 4 - mac_length(macalg),
     MAXIMUM_PACKET_SIZE - 4 - mac_length(macalg) + 1,
     1073741824}

\* the peer writes the first block of a packet that declares a length
PeerDeclares ==
    /\ tamper = NoTamper
    /\ ~eof
    /\ txbuf0 = <<>>
    /\ \E len \in DeclaredLens :
        LET block == put_u32(len) \o <<4>> \o [i \in 1..(block_size(txenc) - 5) |-> 0]
        IN  /\ sock' = sock \o update(txenc, txpos, block)
            /\ txpos' = txpos + Len(block)
            /\ tamper' = [kind |-> "inject", abs |-> txpos, bit |-> -1]
    /\ UNCHANGED <<dvars, enc, macalg, txseq, txbuf0, txbuf1, padInput, eof, rdTotal,
                   rxbuf0, rxbuf1, rxstate, rxseq, rxpos, rxresult, delivered, sent,
                   declared, conn, txenc, txmac, newkeys, kvars>>

InitBpp ==
    /\ ConnectionNew
    /\ HostkeysNew
    /\ timeout = "some"
    /\ \E ts \in TransportStates : enc = ts[1] /\ macalg = ts[2]
    /\ txenc = enc /\ txmac = macalg /\ newkeys = <<>>
    /\ txseq = 0 /\ txpos = 0 /\ txbuf0 = <<>> /\ txbuf1 = <<>> /\ padInput = 0
    /\ sock = <<>> /\ eof = FALSE /\ rdTotal = 0
    /\ rxbuf0 = <<>> /\ rxbuf1 = <<>> /\ rxstate = FillFirst
    /\ rxseq = 0 /\ rxpos = 0 /\ rxresult = "open"
    /\ delivered = <<>> /\ sent = <<>> /\ declared = <<>>
    /\ tamper = NoTamper /\ conn = "running"

NextBpp ==
    \/ StartSend
    \/ PollFlush
    \/ Shutdown
    \/ FlipOneBit
    \/ PeerDeclares
    \/ PollNext
    \/ Run0Fails

SpecBpp == InitBpp /\ [][NextBpp]_vars

\* start_send up to the plaintext packet, for every item length
BuildPacket ==
    /\ txbuf1 = <<>>
    /\ \E fill \in PadFills :
        txbuf1' = PlainPacket(compress(Payload(padInput)), block_size(txenc), fill)
    /\ UNCHANGED <<dvars, enc, macalg, txseq, txpos, txbuf0, padInput, sock, eof, rdTotal,
                   rxbuf0, rxbuf1, rxstate, rxseq, rxpos, rxresult, delivered, sent,
                   declared, tamper, conn, txenc, txmac, newkeys, kvars>>

InitPad ==
    /\ ConnectionNew
    /\ HostkeysNew
    /\ timeout = "some"
    /\ enc \in Ciphers
    /\ macalg = "none"
    /\ txenc = enc /\ txmac = macalg /\ newkeys = <<>>
    /\ padInput \in 0..MaxItemLen
    /\ txseq = 0 /\ txpos = 0 /\ txbuf0 = <<>> /\ txbuf1 = <<>>
    /\ sock = <<>> /\ eof = FALSE /\ rdTotal = 0
    /\ rxbuf0 = <<>> /\ rxbuf1 = <<>> /\ rxstate = FillFirst
    /\ rxseq = 0 /\ rxpos = 0 /\ rxresult = "open"
    /\ delivered = <<>> /\ sent = <<>> /\ declared = <<>>
    /\ tamper = NoTamper /\ conn = "running"

NextPad == BuildPacket

SpecPad == InitPad /\ [][NextPad]_vars



----------------------------------------------------------------------------
(* the codec across a key exchange: NEWKEYS, then state.change_key *)

\* how many times the peer rekeys
MaxRekeys == 1

\* the payload of msg::Newkeys: the message id alone
NewkeysPayload == <<21>>

NewkeysIn(payloads) == Cardinality({i \in 1..Len(payloads) : payloads[i] = NewkeysPayload})

\* the peer sends NEWKEYS under the state in use and writes everything after
\* it under the negotiated state, with a fresh cipher and the same counter
PeerSendsNewkeys ==
    /\ Len(sent) < MaxPackets
    /\ NewkeysIn(sent) < MaxRekeys
    /\ ~eof
    /\ \E fill \in PadFills, ts \in TransportStates :
        LET plain == PlainPacket(compress(NewkeysPayload), block_size(txenc), fill)
            s == get_and_inc_seq(txseq)
        IN  /\ txbuf0' = txbuf0 \o update(txenc, txpos, plain) \o sign(txmac, s.seq, plain)
            /\ txseq' = s.next
            /\ sent' = Append(sent, NewkeysPayload)
            /\ txenc' = ts[1]
            /\ txmac' = ts[2]
            /\ newkeys' = Append(newkeys, ts)
            /\ txpos' = 0
    /\ UNCHANGED <<dvars, enc, macalg, txbuf1, padInput, sock, eof, rdTotal, rxbuf0,
                   rxbuf1, rxstate, rxseq, rxpos, rxresult, delivered, declared, tamper,
                   conn, kvars>>

\* on_kexinit has read the peer's NEWKEYS and has not yet replaced the state
ChangeKeyDue == keyEpoch < NewkeysIn(delivered)

\* rx.next() of run0 and of on_kexinit: between the NEWKEYS it returned and
\* change_key the task does not poll the reader
RxNext ==
    /\ ~ChangeKeyDue
    /\ PollNext

\* state.change_key: the negotiated cipher and MAC replace the reader's, the
\* sequence counter stays
ChangeKey ==
    /\ conn = "running"
    /\ ChangeKeyDue
    /\ enc' = newkeys[keyEpoch + 1][1]
    /\ macalg' = newkeys[keyEpoch + 1][2]
    /\ rxpos' = 0
    /\ keyEpoch' = keyEpoch + 1
    /\ UNCHANGED <<pc, timeout, inbound, rxEnded, peerSent, cur, reply, outq, nextId,
                   hsent, wire, txFailed, channel_handles, auth_handle, err, kexCause,
                   kexGot, registryBefore, runResult, handled, active, hresult,
                   pendingAtKex, permitted, granted, sentBytes, txseq, txpos, txbuf0,
                   txbuf1, padInput, sock, eof, rdTotal, rxbuf0, rxbuf1, rxstate, rxseq,
                   rxresult, delivered, sent, declared, tamper, conn, txenc, txmac,
                   newkeys, kvars>>

InitRekey == InitBpp

NextRekey ==
    \/ StartSend
    \/ PeerSendsNewkeys
    \/ PollFlush
    \/ Shutdown
    \/ RxNext
    \/ ChangeKey

SpecRekey == InitRekey /\ [][NextRekey]_vars

----------------------------------------------------------------------------
(* The outbound queue and the transport sink *)

\* an entry of outq or wire: id is the enqueue stamp (0: written directly to
\* the sink), re the sequence number of the request it answers (-1: none)
Entry(id, re, m) == [id |-> id, re |-> re, m |-> m]
Direct(m) == Entry(0, -1, m)

\* send_immediately: tx.send(msg) writes the message, or fails
SendImmediately(e, fails) == IF fails THEN wire ELSE Append(wire, e)

\* CHANNEL_DATA bytes the entry adds to the channel's count when written
CountData(e, fails) ==
    IF e.m.kind = "ChannelData" /\ ~fails
    THEN [sentBytes EXCEPT ![e.m.ch] = @ + e.m.n]
    ELSE sentBytes

\* message_receive.next(): the oldest entry, and what stays queued
DequeueNewest(q) == [item |-> q[Len(q)], rest |-> SubSeq(q, 1, Len(q) - 1)]
Dequeue(q) == [item |-> Head(q), rest |-> Tail(q)]

\* rx.next(): the oldest received item, and what stays buffered
NextInbound(q) == [item |-> Head(q), rest |-> Tail(q)]

\* rx and message_receive are locals of run0: they are dropped when it returns
Kept(q, returned) == IF returned THEN <<>> ELSE q

\* the branches of select! are polled only at the top of the loop
InSelectOrKex == pc \in {"select", "kex_init", "kex_newkeys"}
DrainPolled == pc = "select"
InAnyArm == pc \in {"select", "handler", "send"}
RxPolled == pc = "select"

RxReady(kinds) ==
    /\ RxPolled
    /\ inbound # <<>>
    /\ NextInbound(inbound).item.m.kind \in kinds

----------------------------------------------------------------------------
(* run0: the start and the arms of the select loop *)

\* self.timeout.unwrap(), then the loop
Run0Start ==
    /\ pc = "start"
    /\ pc' = IF timeout = "none" THEN "panicked" ELSE "select"
    /\ UNCHANGED <<timeout, inbound, rxEnded, peerSent, cur, reply, outq, nextId, hsent,
                   wire, txFailed, channel_handles, auth_handle, keyEpoch, err, kexCause,
                   kexGot, registryBefore, runResult, handled, active, hresult,
                   pendingAtKex, permitted, granted, sentBytes, bvars, kvars>>

\* Some(m) = message_receive.next() => self.send_immediately(m).await?
Drain ==
    /\ DrainPolled
    /\ outq # <<>>
    /\ \E fails \in BOOLEAN :
       LET d == Dequeue(outq) IN
        /\ outq' = Kept(d.rest, fails)
        /\ inbound' = Kept(inbound, fails)
        /\ wire' = SendImmediately(d.item, fails)
        /\ txFailed' = (txFailed \/ fails)
        /\ sentBytes' = CountData(d.item, fails)
        /\ pc' = IF fails THEN "run_err" ELSE pc
        /\ err' = IF fails THEN "MessageError" ELSE err
    /\ UNCHANGED <<timeout, rxEnded, peerSent, cur, reply, nextId, hsent, channel_handles,
                   auth_handle, keyEpoch, kexCause, kexGot, registryBefore, runResult,
                   handled, active, hresult, pendingAtKex, permitted, granted, bvars,
                   kvars>>

\* rx.next() yields Err(Elapsed): m?? returns ConnectionError::Timeout
TimeoutFires ==
    /\ RxPolled
    /\ inbound = <<>>
    /\ ~rxEnded
    /\ outq' = <<>>
    /\ pc' = "run_err"
    /\ err' = "Timeout"
    /\ UNCHANGED <<timeout, inbound, rxEnded, peerSent, cur, reply, nextId, hsent, wire,
                   txFailed, channel_handles, auth_handle, keyEpoch, kexCause, kexGot,
                   registryBefore, runResult, handled, active, hresult, pendingAtKex,
                   permitted, granted, sentBytes, bvars, kvars>>

\* rx.next() yields Ok(Err(e)): m?? returns ConnectionError::MessageError
OnStreamError ==
    /\ RxReady({"StreamError"})
    /\ handled' = Append(handled, NextInbound(inbound).item.seq)
    /\ inbound' = <<>>
    /\ outq' = <<>>
    /\ pc' = "run_err"
    /\ err' = "MessageError"
    /\ UNCHANGED <<timeout, rxEnded, peerSent, cur, reply, nextId, hsent, wire, txFailed,
                   channel_handles, auth_handle, keyEpoch, kexCause, kexGot,
                   registryBefore, runResult, active, hresult, pendingAtKex, permitted,
                   granted, sentBytes, bvars, kvars>>

\* (_seq, Disconnect(item)) => { self.on_disconnect(item).await?; break }
OnDisconnect ==
    /\ RxReady({"Disconnect"})
    /\ handled' = Append(handled, NextInbound(inbound).item.seq)
    /\ inbound' = <<>>
    /\ outq' = <<>>
    /\ pc' = "done"
    /\ runResult' = "Ok"
    /\ UNCHANGED <<timeout, rxEnded, peerSent, cur, reply, nextId, hsent, wire, txFailed,
                   channel_handles, auth_handle, keyEpoch, err, kexCause, kexGot,
                   registryBefore, active, hresult, pendingAtKex, permitted, granted,
                   sentBytes, bvars, kvars>>

\* the default arm if it dropped the message as the Ignore arm does
OnOtherDropped ==
    /\ RxReady(NoArmKinds)
    /\ inbound' = NextInbound(inbound).rest
    /\ handled' = Append(handled, NextInbound(inbound).item.seq)
    /\ UNCHANGED <<pc, timeout, rxEnded, peerSent, cur, reply, outq, nextId, hsent, wire,
                   txFailed, channel_handles, auth_handle, keyEpoch, err, kexCause, kexGot,
                   registryBefore, runResult, active, hresult, pendingAtKex, permitted,
                   granted, sentBytes, bvars, kvars>>

\* (seq, x) => self.send(msg::Unimplemented::new(seq)).await?
OnOther ==
    /\ RxReady(NoArmKinds)
    /\ LET r == NextInbound(inbound) IN
        /\ inbound' = r.rest
        /\ handled' = Append(handled, r.item.seq)
        /\ active' = active \cup {r.item.seq}
        /\ cur' = r.item
        /\ reply' = Unimplemented(r.item.seq)
    /\ pc' = "send"
    /\ UNCHANGED <<timeout, rxEnded, peerSent, outq, nextId, hsent, wire, txFailed,
                   channel_handles, auth_handle, keyEpoch, err, kexCause, kexGot,
                   registryBefore, runResult, hresult, pendingAtKex, permitted, granted,
                   sentBytes, bvars, kvars>>

----------------------------------------------------------------------------
(* on_kexinit and the key exchange it drives *)

\* the select arm takes the client's KEXINIT: send the server's KEXINIT
\* directly, negotiate, look the host key up
OnKexinit ==
    /\ RxReady({"Kexinit"})
    /\ \E fails \in BOOLEAN :
       LET r == NextInbound(inbound)
           ok == ~fails /\ r.item.m.wr /\ r.item.m.n = 1
       IN
        /\ txFailed' = (txFailed \/ fails)
        /\ inbound' = Kept(r.rest, ~ok)
        /\ outq' = Kept(outq, ~ok)
        /\ handled' = Append(handled, r.item.seq)
        /\ wire' = SendImmediately(Direct(Kexinit(TRUE, 1)), fails)
        /\ pendingAtKex' = {outq[i].id : i \in 1..Len(outq)}
        /\ pc' = IF ok THEN "kex_init" ELSE "run_err"
        /\ err' = IF ok THEN err ELSE "KexError"
        /\ kexCause' = IF ok THEN kexCause
                       ELSE IF fails THEN "SendError"
                       ELSE IF ~r.item.m.wr THEN "NegotiateError"
                       ELSE "NoHostkey"
        /\ cur' = IF ok THEN r.item ELSE cur
        /\ active' = IF ok THEN active \cup {r.item.seq} ELSE active
    /\ UNCHANGED <<timeout, rxEnded, peerSent, reply, nextId, hsent, channel_handles,
                   auth_handle, keyEpoch, kexGot, registryBefore, runResult, hresult,
                   permitted, granted, sentBytes, bvars, kvars>>

\* a key exchange that reads past every message it does not expect
KexRecvInitSkipsOthers ==
    /\ pc = "kex_init"
    /\ inbound # <<>> \/ rxEnded
    /\ \E fails \in BOOLEAN :
       LET ended == inbound = <<>>
           r == IF ended THEN [item |-> NoItem, rest |-> inbound] ELSE NextInbound(inbound)
           got == ~ended /\ r.item.m.kind = "KexEcdhInit"
           skipped == ~ended /\ ~got
           ok == (got /\ ~fails) \/ skipped
       IN
        /\ fails => got
        /\ txFailed' = (txFailed \/ fails)
        /\ inbound' = Kept(r.rest, ~ok)
        /\ outq' = Kept(outq, ~ok)
        /\ handled' = IF ended THEN handled ELSE Append(handled, r.item.seq)
        /\ kexGot' = IF ~ended /\ ~got THEN r.item.m.kind ELSE kexGot
        /\ wire' = IF got THEN SendImmediately(Direct(KexEcdhReply), fails) ELSE wire
        /\ pc' = IF skipped THEN "kex_init" ELSE IF ok THEN "kex_newkeys" ELSE "run_err"
        /\ err' = IF ok THEN err ELSE "KexError"
        /\ kexCause' = IF ok THEN kexCause
                       ELSE IF ended THEN "UnexpectedEof"
                       ELSE IF ~got THEN "UnexpectedMsg"
                       ELSE "SendError"
        /\ cur' = IF ok THEN cur ELSE NoItem
        /\ active' = IF ok THEN active ELSE {}
    /\ UNCHANGED <<timeout, rxEnded, peerSent, reply, nextId, hsent, channel_handles,
                   auth_handle, keyEpoch, registryBefore, runResult, hresult, pendingAtKex,
                   permitted, granted, sentBytes, bvars, kvars>>

\* kex: io.next() must be KEX_ECDH_INIT, answered with KEX_ECDH_REPLY
KexRecvInit ==
    /\ pc = "kex_init"
    /\ inbound # <<>> \/ rxEnded
    /\ \E fails \in BOOLEAN :
       LET ended == inbound = <<>>
           r == IF ended THEN [item |-> NoItem, rest |-> inbound] ELSE NextInbound(inbound)
           got == ~ended /\ r.item.m.kind = "KexEcdhInit"
           ok == got /\ ~fails
       IN
        /\ fails => got
        /\ txFailed' = (txFailed \/ fails)
        /\ inbound' = Kept(r.rest, ~ok)
        /\ outq' = Kept(outq, ~ok)
        /\ handled' = IF ended THEN handled ELSE Append(handled, r.item.seq)
        /\ kexGot' = IF ~ended /\ ~got THEN r.item.m.kind ELSE kexGot
        /\ wire' = IF got THEN SendImmediately(Direct(KexEcdhReply), fails) ELSE wire
        /\ pc' = IF ok THEN "kex_newkeys" ELSE "run_err"
        /\ err' = IF ok THEN err ELSE "KexError"
        /\ kexCause' = IF ok THEN kexCause
                       ELSE IF ended THEN "UnexpectedEof"
                       ELSE IF ~got THEN "UnexpectedMsg"
                       ELSE "SendError"
        /\ cur' = IF ok THEN cur ELSE NoItem
        /\ active' = IF ok THEN active ELSE {}
    /\ UNCHANGED <<timeout, rxEnded, peerSent, reply, nextId, hsent, channel_handles,
                   auth_handle, keyEpoch, registryBefore, runResult, hresult, pendingAtKex,
                   permitted, granted, sentBytes, bvars, kvars>>

\* rx.next() must be NEWKEYS: send NEWKEYS directly, then state.change_key
KexRecvNewkeys ==
    /\ pc = "kex_newkeys"
    /\ inbound # <<>> \/ rxEnded
    /\ \E fails, installed \in BOOLEAN :
       LET ended == inbound = <<>>
           r == IF ended THEN [item |-> NoItem, rest |-> inbound] ELSE NextInbound(inbound)
           got == ~ended /\ r.item.m.kind = "Newkeys"
           written == got /\ ~fails
           ok == written /\ installed
       IN
        /\ fails => got
        /\ ~written => installed
        /\ txFailed' = (txFailed \/ fails)
        /\ inbound' = Kept(r.rest, ~ok)
        /\ outq' = Kept(outq, ~ok)
        /\ handled' = IF ended THEN handled ELSE Append(handled, r.item.seq)
        /\ kexGot' = IF ~ended /\ ~got THEN r.item.m.kind ELSE kexGot
        /\ wire' = IF got THEN SendImmediately(Direct(Newkeys), fails) ELSE wire
        /\ keyEpoch' = IF ok THEN keyEpoch + 1 ELSE keyEpoch
        /\ pc' = IF ok THEN "select" ELSE "run_err"
        /\ kexCause' = IF got THEN kexCause
                       ELSE IF ended THEN "UnexpectedEof"
                       ELSE "UnexpectedMsg"
        /\ err' = IF ok THEN err
                  ELSE IF ~got THEN "KexError"
                  ELSE IF ~written THEN "MessageError"
                  ELSE "ChangeKeyError"
        /\ cur' = NoItem
        /\ active' = IF ok THEN active \ {cur.seq} ELSE {}
    /\ UNCHANGED <<timeout, rxEnded, peerSent, reply, nextId, hsent, channel_handles,
                   auth_handle, registryBefore, runResult, hresult, pendingAtKex,
                   permitted, granted, sentBytes, bvars, kvars>>

\* inside on_kexinit the stream is (&mut rx).map(|e| e.unwrap()): the idle
\* timeout's Err(Elapsed) panics and the task unwinds
KexTimeoutPanics ==
    /\ pc \in {"kex_init", "kex_newkeys"}
    /\ inbound = <<>>
    /\ ~rxEnded
    /\ outq' = <<>>
    /\ cur' = NoItem
    /\ active' = {}
    /\ pc' = "panicked"
    /\ UNCHANGED <<timeout, inbound, rxEnded, peerSent, reply, nextId, hsent, wire,
                   txFailed, channel_handles, auth_handle, keyEpoch, err, kexCause, kexGot,
                   registryBefore, runResult, handled, hresult, pendingAtKex, permitted,
                   granted, sentBytes, bvars, kvars>>


----------------------------------------------------------------------------
(* the channel arms *)

\* on_channel_open up to the await of handler.channel_open_session
OnChannelOpen ==
    /\ RxReady({"ChannelOpen"})
    /\ LET r == NextInbound(inbound)
           m == r.item.m
           session == m.sub = "session"
       IN
        /\ inbound' = r.rest
        /\ handled' = Append(handled, r.item.seq)
        /\ active' = active \cup {r.item.seq}
        /\ cur' = r.item
        /\ channel_handles' = IF session THEN channel_handles \cup {m.ch} ELSE channel_handles
        /\ registryBefore' = channel_handles
        /\ permitted' = IF session THEN [permitted EXCEPT ![m.ch] = m.n] ELSE permitted
        /\ granted' = IF session THEN [granted EXCEPT ![m.ch] = m.n] ELSE granted
        /\ sentBytes' = IF session THEN [sentBytes EXCEPT ![m.ch] = 0] ELSE sentBytes
        /\ reply' = IF session THEN reply ELSE ChannelOpenFailure(m.ch, "UnknownChannelType")
        /\ pc' = IF session THEN "handler" ELSE "send"
    /\ UNCHANGED <<timeout, rxEnded, peerSent, outq, nextId, hsent, wire, txFailed,
                   auth_handle, keyEpoch, err, kexCause, kexGot, runResult, hresult,
                   pendingAtKex, bvars, kvars>>

\* on_channel_request up to the await of the handler
OnChannelRequest ==
    /\ RxReady({"ChannelRequest"})
    /\ LET r == NextInbound(inbound)
           m == r.item.m
           known == m.ch \in channel_handles
           routed == m.sub \in {"pty-req", "shell", "exec"}
           begun == known /\ (routed \/ m.wr)
       IN
        /\ inbound' = Kept(r.rest, ~known)
        /\ outq' = Kept(outq, ~known)
        /\ handled' = Append(handled, r.item.seq)
        /\ active' = IF begun THEN active \cup {r.item.seq} ELSE active
        /\ cur' = IF begun THEN r.item ELSE cur
        /\ reply' = IF known /\ ~routed /\ m.wr THEN ChannelFailure(m.ch) ELSE reply
        /\ pc' = IF ~known THEN "run_err"
                 ELSE IF routed THEN "handler"
                 ELSE IF m.wr THEN "send"
                 ELSE pc
        /\ err' = IF known THEN err ELSE "UnknownChannelId"
    /\ UNCHANGED <<timeout, rxEnded, peerSent, nextId, hsent, wire, txFailed,
                   channel_handles, auth_handle, keyEpoch, kexCause, kexGot,
                   registryBefore, runResult, hresult, pendingAtKex, permitted, granted,
                   sentBytes, bvars, kvars>>

\* on_channel_window_adjust: self.send(msg)
OnChannelWindowAdjust ==
    /\ RxReady({"ChannelWindowAdjust"})
    /\ LET r == NextInbound(inbound)
           m == r.item.m
       IN
        /\ inbound' = r.rest
        /\ handled' = Append(handled, r.item.seq)
        /\ active' = active \cup {r.item.seq}
        /\ cur' = r.item
        /\ permitted' = [permitted EXCEPT ![m.ch] = @ + m.n]
        /\ granted' = [granted EXCEPT ![m.ch] = @ + m.n]
        /\ reply' = m
        /\ pc' = "send"
    /\ UNCHANGED <<timeout, rxEnded, peerSent, outq, nextId, hsent, wire, txFailed,
                   channel_handles, auth_handle, keyEpoch, err, kexCause, kexGot,
                   registryBefore, runResult, hresult, pendingAtKex, sentBytes, bvars,
                   kvars>>

\* the handler call returns, and a request is answered with success either way
HandlerReturnsSuccess ==
    /\ pc = "handler"
    /\ cur.m.kind \in {"ChannelOpen", "ChannelRequest"}
    /\ \E ok \in BOOLEAN :
        /\ hresult' = IF ok THEN "Ok" ELSE "Err"
        /\ reply' = IF cur.m.kind = "ChannelOpen"
                    THEN ChannelOpenConfirmation(cur.m.ch, cur.m.ch, cur.m.n)
                    ELSE ChannelSuccess(cur.m.ch)
        /\ pc' = "send"
    /\ UNCHANGED <<timeout, inbound, rxEnded, peerSent, cur, outq, nextId, hsent, wire,
                   txFailed, channel_handles, auth_handle, keyEpoch, err, kexCause, kexGot,
                   registryBefore, runResult, handled, active, pendingAtKex, permitted,
                   granted, sentBytes, bvars, kvars>>

\* the awaited handler call returns Ok or Err
HandlerReturns ==
    /\ pc = "handler"
    /\ cur.m.kind \in {"ChannelOpen", "ChannelRequest"}
    /\ \E ok \in BOOLEAN :
       LET m == cur.m
           open == m.kind = "ChannelOpen"
           answer == IF open
                     THEN IF ok THEN ChannelOpenConfirmation(m.ch, m.ch, m.n)
                          ELSE ChannelOpenFailure(m.ch, "ConnectFailed")
                     ELSE IF ok THEN ChannelSuccess(m.ch) ELSE ChannelFailure(m.ch)
           replies == open \/ m.wr
       IN
        /\ hresult' = IF ok THEN "Ok" ELSE "Err"
        /\ channel_handles' = IF open /\ ~ok THEN channel_handles \ {m.ch} ELSE channel_handles
        /\ permitted' = IF open /\ ~ok THEN [permitted EXCEPT ![m.ch] = 0] ELSE permitted
        /\ granted' = IF open /\ ~ok THEN [granted EXCEPT ![m.ch] = 0] ELSE granted
        /\ reply' = IF replies THEN answer ELSE reply
        /\ pc' = IF replies THEN "send" ELSE "select"
        /\ cur' = IF replies THEN cur ELSE NoItem
        /\ active' = IF replies THEN active ELSE active \ {cur.seq}
    /\ UNCHANGED <<timeout, inbound, rxEnded, peerSent, outq, nextId, hsent, wire,
                   txFailed, auth_handle, keyEpoch, err, kexCause, kexGot, registryBefore,
                   runResult, handled, pendingAtKex, sentBytes, bvars, kvars>>

\* send: self.message_send.send(msg).await, which waits for room in the queue
SendReply ==
    /\ pc = "send"
    /\ Len(outq) < QueueCap
    /\ outq' = Append(outq, Entry(nextId, cur.seq, reply))
    /\ nextId' = nextId + 1
    /\ reply' = NoMsg
    /\ cur' = NoItem
    /\ active' = active \ {cur.seq}
    /\ registryBefore' = {}
    /\ pc' = "select"
    /\ UNCHANGED <<timeout, inbound, rxEnded, peerSent, hsent, wire, txFailed,
                   channel_handles, auth_handle, keyEpoch, err, kexCause, kexGot,
                   runResult, handled, hresult, pendingAtKex, permitted, granted,
                   sentBytes, bvars, kvars>>

----------------------------------------------------------------------------
(* run: the error branch *)

\* if let Err(e) = self.run0().await: send DISCONNECT directly, return Err(e)
RunErrorSilent ==
    /\ pc = "run_err"
    /\ runResult' = err
    /\ pc' = "done"
    /\ UNCHANGED <<timeout, inbound, rxEnded, peerSent, cur, reply, outq, nextId, hsent,
                   wire, txFailed, channel_handles, auth_handle, keyEpoch, err, kexCause,
                   kexGot, registryBefore, handled, active, hresult, pendingAtKex,
                   permitted, granted, sentBytes, bvars, kvars>>

\* run's error branch if the DISCONNECT went through send instead
RunErrorViaQueue ==
    /\ pc = "run_err"
    /\ outq' = Append(outq, Entry(nextId, -1, Disconnect(2, "unexpected")))
    /\ nextId' = nextId + 1
    /\ runResult' = err
    /\ pc' = "done"
    /\ UNCHANGED <<timeout, inbound, rxEnded, peerSent, cur, reply, hsent, wire, txFailed,
                   channel_handles, auth_handle, keyEpoch, err, kexCause, kexGot,
                   registryBefore, handled, active, hresult, pendingAtKex, permitted,
                   granted, sentBytes, bvars, kvars>>

RunError ==
    /\ pc = "run_err"
    /\ \E fails \in BOOLEAN :
        /\ wire' = SendImmediately(Direct(Disconnect(2, "unexpected")), fails)
        /\ txFailed' = (txFailed \/ fails)
    /\ runResult' = err
    /\ pc' = "done"
    /\ UNCHANGED <<timeout, inbound, rxEnded, peerSent, cur, reply, outq, nextId, hsent,
                   channel_handles, auth_handle, keyEpoch, err, kexCause, kexGot,
                   registryBefore, handled, active, hresult, pendingAtKex, permitted,
                   granted, sentBytes, bvars, kvars>>

----------------------------------------------------------------------------
(* the environment: handler tasks, the peer, the socket *)

\* run0 is in its loop
Looping == pc \in {"select", "handler", "send", "kex_init", "kex_newkeys"}

\* a handler task pushes CHANNEL_DATA through its ChannelHandle
HandlerEnqueue ==
    /\ Looping
    /\ hsent < MaxHandlerMsgs
    /\ Len(outq) < QueueCap
    /\ \E c \in channel_handles, len \in DataLens :
        outq' = Append(outq, Entry(nextId, -1, ChannelData(c, len)))
    /\ nextId' = nextId + 1
    /\ hsent' = hsent + 1
    /\ UNCHANGED <<pc, timeout, inbound, rxEnded, peerSent, cur, reply, wire, txFailed,
                   channel_handles, auth_handle, keyEpoch, err, kexCause, kexGot,
                   registryBefore, runResult, handled, active, hresult, pendingAtKex,
                   permitted, granted, sentBytes, bvars, kvars>>

\* the peer's next packet arrives
PeerSends ==
    /\ Looping
    /\ ~rxEnded
    /\ peerSent < MaxInbound
    /\ Len(inbound) < MaxInFlight
    /\ \E m \in PeerMsgs : inbound' = Append(inbound, [seq |-> peerSent, m |-> m])
    /\ peerSent' = peerSent + 1
    /\ UNCHANGED <<pc, timeout, rxEnded, cur, reply, outq, nextId, hsent, wire, txFailed,
                   channel_handles, auth_handle, keyEpoch, err, kexCause, kexGot,
                   registryBefore, runResult, handled, active, hresult, pendingAtKex,
                   permitted, granted, sentBytes, bvars, kvars>>

\* the peer closes its sending side: rx yields None after the buffered packets
PeerCloses ==
    /\ Looping
    /\ ~rxEnded
    /\ inbound = <<>>
    /\ rxEnded' = TRUE
    /\ UNCHANGED <<pc, timeout, inbound, peerSent, cur, reply, outq, nextId, hsent, wire,
                   txFailed, channel_handles, auth_handle, keyEpoch, err, kexCause, kexGot,
                   registryBefore, runResult, handled, active, hresult, pendingAtKex,
                   permitted, granted, sentBytes, bvars, kvars>>

----------------------------------------------------------------------------

Init == ConnectionNew /\ BppNew /\ HostkeysNew

Next ==
    \/ Run0Start
    \/ Drain
    \/ TimeoutFires
    \/ OnStreamError
    \/ OnDisconnect
    \/ OnOther
    \/ OnKexinit
    \/ KexRecvInit
    \/ KexRecvNewkeys
    \/ KexTimeoutPanics
    \/ OnChannelOpen
    \/ OnChannelRequest
    \/ OnChannelWindowAdjust
    \/ HandlerReturns
    \/ SendReply
    \/ RunError
    \/ HandlerEnqueue
    \/ PeerSends
    \/ PeerCloses

Spec == Init /\ [][Next]_vars



----------------------------------------------------------------------------
(* the arms of run0 for the services, the authentication and the channels *)

\* on_service_request: SERVICE_ACCEPT for "ssh-userauth", an error otherwise
OnServiceRequest ==
    /\ RxReady({"ServiceRequest"})
    /\ LET r == NextInbound(inbound)
           m == r.item.m
           ok == m.sub = "ssh-userauth"
       IN
        /\ inbound' = Kept(r.rest, ~ok)
        /\ outq' = Kept(outq, ~ok)
        /\ handled' = Append(handled, r.item.seq)
        /\ active' = IF ok THEN active \cup {r.item.seq} ELSE active
        /\ cur' = IF ok THEN r.item ELSE cur
        /\ reply' = IF ok THEN ServiceAccept(m.sub) ELSE reply
        /\ pc' = IF ok THEN "send" ELSE "run_err"
        /\ err' = IF ok THEN err ELSE "Unknown"
    /\ UNCHANGED <<timeout, rxEnded, peerSent, nextId, hsent, wire, txFailed,
                   channel_handles, auth_handle, keyEpoch, kexCause, kexGot,
                   registryBefore, runResult, hresult, pendingAtKex, permitted, granted,
                   sentBytes, bvars, kvars>>

\* the methods for which on_userauth_request awaits a handler operation
HandlerMethods == {"none", "publickey", "password", "password-change"}

\* on_userauth_request up to the handler call: the service name, the auth
\* handle, and the methods answered without the handler
OnUserauthRequest ==
    /\ RxReady({"UserauthRequest"})
    /\ LET r == NextInbound(inbound)
           m == r.item.m
           ok == m.wr
           calls == m.sub \in HandlerMethods
       IN
        /\ inbound' = Kept(r.rest, ~ok)
        /\ outq' = Kept(outq, ~ok)
        /\ handled' = Append(handled, r.item.seq)
        /\ auth_handle' = (auth_handle \/ ok)
        /\ active' = IF ok THEN active \cup {r.item.seq} ELSE active
        /\ cur' = IF ok THEN r.item ELSE cur
        /\ reply' = IF ~ok \/ calls THEN reply
                    ELSE IF m.sub = "publickey-signed" THEN UserauthSuccess
                    ELSE UserauthFailure(FALSE)
        /\ pc' = IF ~ok THEN "run_err" ELSE IF calls THEN "handler" ELSE "send"
        /\ err' = IF ok THEN err ELSE "Unknown"
    /\ UNCHANGED <<timeout, rxEnded, peerSent, nextId, hsent, wire, txFailed,
                   channel_handles, keyEpoch, kexCause, kexGot, registryBefore, runResult,
                   hresult, pendingAtKex, permitted, granted, sentBytes, bvars, kvars>>

\* what auth_none, auth_publickey, auth_password, auth_password_change return
AuthResults(method) ==
    CASE method = "password" -> {"Accept", "ChangePasswdreq", "Reject", "Err"}
      [] method = "password-change" -> {"Accept", "ChangePasswdreq", "Partial", "Reject", "Err"}
      [] OTHER -> {"Accept", "Reject", "Err"}

\* a reply that reports a partial success whatever the handler returned
AuthReplyPartial(method, result) == UserauthFailure(TRUE)

\* the message on_userauth_request sends for the handler's result
AuthReply(method, result) ==
    CASE result = "Accept" -> IF method = "publickey" THEN UserauthPkOk ELSE UserauthSuccess
      [] result = "ChangePasswdreq" -> UserauthPasswdChangereq
      [] result = "Partial" -> UserauthFailure(TRUE)
      [] OTHER -> UserauthFailure(FALSE)

\* the awaited auth operation returns: map_err(AuthError)?, then the match
AuthReturns ==
    /\ pc = "handler"
    /\ cur.m.kind = "UserauthRequest"
    /\ \E result \in AuthResults(cur.m.sub) :
       LET failed == result = "Err" IN
        /\ hresult' = result
        /\ inbound' = Kept(inbound, failed)
        /\ outq' = Kept(outq, failed)
        /\ reply' = IF failed THEN reply ELSE AuthReply(cur.m.sub, result)
        /\ cur' = IF failed THEN NoItem ELSE cur
        /\ active' = IF failed THEN {} ELSE active
        /\ pc' = IF failed THEN "run_err" ELSE "send"
        /\ err' = IF failed THEN "AuthError" ELSE err
    /\ UNCHANGED <<timeout, rxEnded, peerSent, nextId, hsent, wire, txFailed,
                   channel_handles, auth_handle, keyEpoch, kexCause, kexGot,
                   registryBefore, runResult, handled, pendingAtKex, permitted, granted,
                   sentBytes, bvars, kvars>>

\* on_channel_data up to the handler call
OnChannelData ==
    /\ RxReady({"ChannelData"})
    /\ LET r == NextInbound(inbound)
           known == r.item.m.ch \in channel_handles
       IN
        /\ granted' = IF known THEN [granted EXCEPT ![r.item.m.ch] = @ - r.item.m.n]
                      ELSE granted
        /\ inbound' = Kept(r.rest, ~known)
        /\ outq' = Kept(outq, ~known)
        /\ handled' = Append(handled, r.item.seq)
        /\ active' = IF known THEN active \cup {r.item.seq} ELSE active
        /\ cur' = IF known THEN r.item ELSE cur
        /\ pc' = IF known THEN "handler" ELSE "run_err"
        /\ err' = IF known THEN err ELSE "UnknownChannelId"
    /\ UNCHANGED <<timeout, rxEnded, peerSent, reply, nextId, hsent, wire, txFailed,
                   channel_handles, auth_handle, keyEpoch, kexCause, kexGot,
                   registryBefore, runResult, hresult, pendingAtKex, permitted, sentBytes,
                   bvars, kvars>>

\* on_channel_eof if it called the handler without looking the channel up
OnChannelEofUnchecked ==
    /\ RxReady({"ChannelEof"})
    /\ inbound' = NextInbound(inbound).rest
    /\ handled' = Append(handled, NextInbound(inbound).item.seq)
    /\ active' = active \cup {NextInbound(inbound).item.seq}
    /\ cur' = NextInbound(inbound).item
    /\ pc' = "handler"
    /\ UNCHANGED <<timeout, rxEnded, peerSent, reply, outq, nextId, hsent, wire, txFailed,
                   channel_handles, auth_handle, keyEpoch, err, kexCause, kexGot,
                   registryBefore, runResult, hresult, pendingAtKex, permitted, granted,
                   sentBytes, bvars, kvars>>

\* on_channel_eof up to the handler call
OnChannelEof ==
    /\ RxReady({"ChannelEof"})
    /\ LET r == NextInbound(inbound)
           known == r.item.m.ch \in channel_handles
       IN
        /\ inbound' = Kept(r.rest, ~known)
        /\ outq' = Kept(outq, ~known)
        /\ handled' = Append(handled, r.item.seq)
        /\ active' = IF known THEN active \cup {r.item.seq} ELSE active
        /\ cur' = IF known THEN r.item ELSE cur
        /\ pc' = IF known THEN "handler" ELSE "run_err"
        /\ err' = IF known THEN err ELSE "UnknownChannelId"
    /\ UNCHANGED <<timeout, rxEnded, peerSent, reply, nextId, hsent, wire, txFailed,
                   channel_handles, auth_handle, keyEpoch, kexCause, kexGot,
                   registryBefore, runResult, hresult, pendingAtKex, permitted, granted,
                   sentBytes, bvars, kvars>>

\* on_channel_close up to the handler call: the handle is removed first
OnChannelClose ==
    /\ RxReady({"ChannelClose"})
    /\ LET r == NextInbound(inbound)
           known == r.item.m.ch \in channel_handles
       IN
        /\ inbound' = Kept(r.rest, ~known)
        /\ outq' = Kept(outq, ~known)
        /\ handled' = Append(handled, r.item.seq)
        /\ channel_handles' = channel_handles \ {r.item.m.ch}
        /\ active' = IF known THEN active \cup {r.item.seq} ELSE active
        /\ cur' = IF known THEN r.item ELSE cur
        /\ pc' = IF known THEN "handler" ELSE "run_err"
        /\ err' = IF known THEN err ELSE "UnknownChannelId"
    /\ UNCHANGED <<timeout, rxEnded, peerSent, reply, nextId, hsent, wire, txFailed,
                   auth_handle, keyEpoch, kexCause, kexGot, registryBefore, runResult,
                   hresult, pendingAtKex, permitted, granted, sentBytes, bvars, kvars>>

\* channel_data, channel_eof or channel_close returns: map_err(ChannelError)?
ChannelIoReturns ==
    /\ pc = "handler"
    /\ cur.m.kind \in {"ChannelData", "ChannelEof", "ChannelClose"}
    /\ \E ok \in BOOLEAN :
        /\ hresult' = IF ok THEN "Ok" ELSE "Err"
        /\ inbound' = Kept(inbound, ~ok)
        /\ outq' = Kept(outq, ~ok)
        /\ cur' = NoItem
        /\ active' = IF ok THEN active \ {cur.seq} ELSE {}
        /\ pc' = IF ok THEN "select" ELSE "run_err"
        /\ err' = IF ok THEN err ELSE "ChannelError"
    /\ UNCHANGED <<timeout, rxEnded, peerSent, reply, nextId, hsent, wire, txFailed,
                   channel_handles, auth_handle, keyEpoch, kexCause, kexGot,
                   registryBefore, runResult, handled, pendingAtKex, permitted, granted,
                   sentBytes, bvars, kvars>>

\* on_global_request: self.send(msg::RequestFailure)
OnGlobalRequest ==
    /\ RxReady({"GlobalRequest"})
    /\ LET r == NextInbound(inbound) IN
        /\ inbound' = r.rest
        /\ handled' = Append(handled, r.item.seq)
        /\ active' = active \cup {r.item.seq}
        /\ cur' = r.item
        /\ reply' = RequestFailure
    /\ pc' = "send"
    /\ UNCHANGED <<timeout, rxEnded, peerSent, outq, nextId, hsent, wire, txFailed,
                   channel_handles, auth_handle, keyEpoch, err, kexCause, kexGot,
                   registryBefore, runResult, hresult, pendingAtKex, permitted, granted,
                   sentBytes, bvars, kvars>>

\* (_seq, Ignore(..)) => {}
OnIgnore ==
    /\ RxReady({"Ignore"})
    /\ inbound' = NextInbound(inbound).rest
    /\ handled' = Append(handled, NextInbound(inbound).item.seq)
    /\ UNCHANGED <<pc, timeout, rxEnded, peerSent, cur, reply, outq, nextId, hsent, wire,
                   txFailed, channel_handles, auth_handle, keyEpoch, err, kexCause, kexGot,
                   registryBefore, runResult, active, hresult, pendingAtKex, permitted,
                   granted, sentBytes, bvars, kvars>>

\* on_unimplemented: log only
OnUnimplemented ==
    /\ RxReady({"Unimplemented"})
    /\ inbound' = NextInbound(inbound).rest
    /\ handled' = Append(handled, NextInbound(inbound).item.seq)
    /\ UNCHANGED <<pc, timeout, rxEnded, peerSent, cur, reply, outq, nextId, hsent, wire,
                   txFailed, channel_handles, auth_handle, keyEpoch, err, kexCause, kexGot,
                   registryBefore, runResult, active, hresult, pendingAtKex, permitted,
                   granted, sentBytes, bvars, kvars>>

\* the peer's next packet arrives, the keys being installed
PeerSendsConn ==
    /\ Looping
    /\ ~rxEnded
    /\ peerSent < MaxConnInbound
    /\ Len(inbound) < MaxInFlight
    /\ \E m \in ConnMsgs : inbound' = Append(inbound, [seq |-> peerSent, m |-> m])
    /\ peerSent' = peerSent + 1
    /\ UNCHANGED <<pc, timeout, rxEnded, cur, reply, outq, nextId, hsent, wire, txFailed,
                   channel_handles, auth_handle, keyEpoch, err, kexCause, kexGot,
                   registryBefore, runResult, handled, active, hresult, pendingAtKex,
                   permitted, granted, sentBytes, bvars, kvars>>

----------------------------------------------------------------------------

NextConn ==
    \/ Run0Start
    \/ Drain
    \/ TimeoutFires
    \/ OnDisconnect
    \/ OnOther
    \/ OnServiceRequest
    \/ OnUserauthRequest
    \/ AuthReturns
    \/ OnChannelOpen
    \/ OnChannelRequest
    \/ HandlerReturns
    \/ OnChannelData
    \/ OnChannelEof
    \/ OnChannelClose
    \/ ChannelIoReturns
    \/ OnGlobalRequest
    \/ OnIgnore
    \/ OnUnimplemented
    \/ SendReply
    \/ RunError
    \/ HandlerEnqueue
    \/ PeerSendsConn
    \/ PeerCloses

\* the dispatcher once the first key exchange is done
SpecConn == Init /\ [][NextConn]_vars



----------------------------------------------------------------------------
(* host-key selection of on_kexinit: Algorithm::negotiate, then HostKeys::lookup *)

\* the host-key algorithms of the registry
HostKeyAlgorithms == {"ssh-ed25519", "ssh-rsa"}

\* the algorithms a HostKey can be of
LoadableAlgorithms == {"ssh-ed25519"}

MaxNameList == 2
MaxHostKeys == 2

\* name-lists: sequences without repetition
NameLists(S) ==
    {l \in UNION {[1..n -> S] : n \in 0..MaxNameList} :
        \A i, j \in 1..Len(l) : l[i] = l[j] => i = j}

Contains(l, a) == \E i \in 1..Len(l) : l[i] = a

\* the first entry of the client's list that the server's list has too
negotiate(client, server) ==
    LET common == {i \in 1..Len(client) : Contains(server, client[i])}
    IN  IF common = {} THEN "NegotiateError"
        ELSE client[CHOOSE i \in common : \A j \in common : i <= j]

\* keys.iter().find(|k| &k.algorithm() == algorithm)
lookup(keys, algorithm) ==
    LET found == {i \in 1..Len(keys) : keys[i] = algorithm}
    IN  IF found = {} THEN "None"
        ELSE keys[CHOOSE i \in found : \A j \in found : i <= j]

\* on_kexinit: negotiate from the two lists alone, then look the key up
SelectHostkey ==
    /\ selected = "pending"
    /\ selected' =
          LET algorithm == negotiate(client_hostkey, preference)
          IN  IF algorithm = "NegotiateError" THEN "NegotiateError"
              ELSE IF lookup(hostkeys, algorithm) = "None" THEN "NoHostkey"
              ELSE algorithm
    /\ UNCHANGED <<dvars, bvars, client_hostkey, preference, hostkeys>>

InitHostkey ==
    /\ ConnectionNew
    /\ BppNew
    /\ client_hostkey \in NameLists(HostKeyAlgorithms)
    /\ preference \in NameLists(HostKeyAlgorithms)
    /\ hostkeys \in UNION {[1..n -> LoadableAlgorithms] : n \in 0..MaxHostKeys}
    /\ selected = "pending"

NextHostkey == SelectHostkey

SpecHostkey == InitHostkey /\ [][NextHostkey]_vars

----------------------------------------------------------------------------
(* Properties of the dispatcher, checked under Spec *)

\* ids of the entries of a sequence of entries
Ids(s) == [i \in 1..Len(s) |-> s[i].id]
Queued(s) == SelectSeq(s, LAMBDA e : e.id > 0)
Replies(s) == SelectSeq(s, LAMBDA e : e.re >= 0)
Increasing(s) == \A i, j \in 1..Len(s) : i < j => s[i] < s[j]

\* C1: KEX exclusivity. In every step taken while the task is inside
\* on_kexinit (from the step that sends the server KEXINIT to the step that
\* installs the keys), the only messages written to the transport are the
\* key-exchange messages the dispatcher writes directly, and no entry leaves
\* the outbound queue: what handlers enqueue meanwhile stays queued.
C1_KexExclusivity ==
    [][(pc \in KexPcs \/ pc' \in KexPcs) =>
          /\ \/ wire' = wire
             \/ /\ Len(wire') = Len(wire) + 1
                /\ SubSeq(wire', 1, Len(wire)) = wire
                /\ Last(wire').id = 0
                /\ Last(wire').m.kind \in KexKinds
          /\ pc' \in KexPcs \cup {"select"} => IsPrefix(outq, outq')]_vars

\* a handler's message enqueued during the key exchange is held in the queue
C1_Witness ==
    /\ pc = "kex_newkeys"
    /\ \E i \in 1..Len(outq) : outq[i].id \notin pendingAtKex /\ outq[i].m.kind = "ChannelData"

\* C2: every message that was queued when the peer's KEXINIT was taken has
\* left the queue by the time the server's NEWKEYS is on the wire.
C2_PendingFlushedBeforeNewkeys ==
    (wire # <<>> /\ Last(wire).m.kind = "Newkeys") =>
        \A i \in 1..Len(outq) : outq[i].id \notin pendingAtKex

\* C3: outbound messages are written in enqueue order: the enqueue stamps of
\* the queued messages on the wire, followed by those still in the queue,
\* increase strictly.
C3_OutboundFifo == Increasing(Ids(Queued(wire)) \o Ids(outq))

\* two queued messages are on the wire with a rekey's NEWKEYS between them
C3_Witness ==
    \E i, j, k \in 1..Len(wire) :
        /\ i < j /\ j < k
        /\ wire[i].id > 0
        /\ wire[j].m.kind = "Newkeys"
        /\ wire[k].id > 0

C9_ChannelWindow == \A c \in ChanIds : permitted[c] - sentBytes[c] >= 0

\* C10: idle timeout. When the loop waits with nothing to read and nothing
\* to drain, the only step of the task is the timeout, which makes run0
\* return the timeout error; run then writes DISCONNECT(2, "unexpected")
\* directly to the sink (unless that write fails) and returns the error.
C10_IdleTimeout ==
    [][/\ (pc = "select" /\ inbound = <<>> /\ outq = <<>> /\ ~rxEnded /\ pc' # pc) =>
            (pc' = "run_err" /\ err' = "Timeout")
       /\ (pc = "run_err" /\ err = "Timeout" /\ pc' # pc) =>
            /\ pc' = "done"
            /\ runResult' = "Timeout"
            /\ \/ txFailed'
               \/ wire' = Append(wire, Direct(Disconnect(2, "unexpected")))]_vars

\* run has returned the timeout error after writing the DISCONNECT
C10_Witness ==
    /\ pc = "done"
    /\ runResult = "Timeout"
    /\ ~txFailed
    /\ Len(wire) > 1
    /\ Last(wire) = Direct(Disconnect(2, "unexpected"))



----------------------------------------------------------------------------
(* Properties of the packet codec, checked under SpecBpp and SpecPad *)

Max(a, b) == IF a > b THEN a ELSE b

\* bytes of the encoded packet of an item: encrypted region and MAC
FrameLen(item) == Len(PlainPacket(item, block_size(enc), 0)) + mac_length(macalg)

\* offset in the byte stream at which the j-th packet written begins
RECURSIVE FrameStart(_)
FrameStart(j) == IF j <= 1 THEN 0 ELSE FrameStart(j - 1) + FrameLen(sent[j - 1])

\* the packet the flipped bit lies in, and the offset of its byte in that packet
FlipPkt == CHOOSE j \in 1..Len(sent) : FrameStart(j) <= tamper.abs /\ tamper.abs < FrameStart(j + 1)
FlipOff == tamper.abs - FrameStart(FlipPkt)

\* C5: frame round trip. As long as nothing modifies the bytes between the
\* writer and the matching reader, the payloads delivered are exactly the
\* payloads written, in order; the writer's counter has advanced by one for
\* every packet written and the reader's by one for every packet delivered;
\* the reader reports no error, and once it has read all bytes of the next
\* packet it holds them and delivers on its next poll.
C5_FrameRoundTrip ==
    tamper = NoTamper =>
        /\ IsPrefix(delivered, sent)
        /\ txseq = Len(sent)
        /\ rxseq = Len(delivered)
        /\ rxresult \in {"open", "None"}
        /\ Len(rxbuf0) = rdTotal - FrameStart(Len(delivered) + 1)
        /\ rxstate.st = "FillRemaining" =>
              /\ Len(delivered) < Len(sent)
              /\ rxstate.len + 4 + mac_length(macalg) = FrameLen(sent[Len(delivered) + 1])

\* two different payloads went through an encrypting, signing transport state
C5_Witness ==
    /\ tamper = NoTamper
    /\ enc = "aes-ctr" /\ macalg = "hmac"
    /\ Len(sent) = 2 /\ sent[1] # sent[2]
    /\ delivered = sent
    /\ rxseq = 2 /\ txseq = 2

\* C6 as stated: after a single-bit flip anywhere in the encrypted region or
\* the MAC of a packet, the reader delivers no payload of that packet and
\* its only failure is the MAC mismatch.
C6_AnyFlipIsMacMismatch ==
    tamper.kind = "flip" =>
        /\ Len(delivered) < FlipPkt
        /\ rxresult \in {"open", "None", "MacMismatch"}

\* C6 amended: under a MAC other than none, after a single-bit flip in the
\* encrypted region or the MAC of a packet the reader never delivers a
\* payload of that packet; when the flipped bit lies outside the
\* packet_length field the reader's outcome for that packet is the MAC
\* mismatch, reached on the poll that has all bytes of the packet; when it
\* lies inside, the reader may instead fail as oversize, exactly when the
\* flipped length + 4 + mac_len exceeds 35000, or panic, exactly when the
\* flipped length + 4 is below the block size.
C6_FlipRejected ==
    (tamper.kind = "flip" /\ macalg # "none") =>
        /\ Len(delivered) < FlipPkt
        /\ rxresult = "TooLargePacket" =>
              /\ FlipOff < 4
              /\ Last(declared) + 4 + mac_length(macalg) > MAXIMUM_PACKET_SIZE
        /\ rxresult = "panic" =>
              /\ FlipOff < 4
              /\ rxstate.len + 4 < block_size(enc)
        /\ FlipOff >= 4 =>
              /\ rxresult \in {"open", "None", "MacMismatch"}
              /\ rxseq >= FlipPkt => rxresult = "MacMismatch"
              /\ (rxresult = "open" /\ Len(delivered) = FlipPkt - 1) =>
                     Len(rxbuf0) = rdTotal - FrameStart(FlipPkt)

\* a bit of the encrypted payload was flipped and the packet was refused
C6_Witness ==
    /\ tamper.kind = "flip"
    /\ macalg = "hmac"
    /\ FlipOff >= 5
    /\ FlipOff < FrameLen(sent[FlipPkt]) - mac_length(macalg)
    /\ rxresult = "MacMismatch"
    /\ conn = "failed"

\* C7: padding. The packet start_send builds for an item of n bytes under a
\* cipher of block size bs has a padding length p with 4 <= p <= 255, has
\* 4 + 1 + n + p bytes, a multiple of max(bs, 8), and carries n + p + 1 in
\* its packet_length field.
C7_Padding ==
    txbuf1 # <<>> =>
        LET n == padInput
            bs == block_size(enc)
            p == txbuf1[5]
        IN  /\ 4 <= p /\ p <= 255
            /\ Len(txbuf1) = 4 + 1 + n + p
            /\ (4 + 1 + n + p) % Max(bs, 8) = 0
            /\ get_u32(txbuf1) = n + p + 1

\* the longest padding: the length overshoots the block by three bytes
C7_Witness ==
    /\ txbuf1 # <<>>
    /\ enc = "aes-ctr"
    /\ txbuf1[5] = 19
    /\ padInput > 16

\* C8: oversize. A first block that declares a packet_length with
\* packet_length + 4 + mac_len > 35000 makes the reader fail with
\* TooLargePacket in the very poll that decrypts it, and only such a block
\* does (a sum of exactly 35000 passes); after that failure nothing is
\* delivered, no sequence number is taken, and the only step of the polling
\* task is to end with the error.
C8_Oversize ==
    [][/\ \A i \in 1..Len(declared') :
            (declared'[i] + 4 + mac_length(macalg') > 35000)
                <=> (i = Len(declared') /\ rxresult' = "TooLargePacket")
       /\ rxresult' = "TooLargePacket" => Len(delivered') < Len(declared')
       /\ rxresult = "TooLargePacket" =>
            /\ delivered' = delivered
            /\ declared' = declared
            /\ rxseq' = rxseq
            /\ rxresult' = rxresult
            /\ conn' # conn => conn' = "failed"]_vars

\* a packet was delivered, the next one declared too much, the task failed
C8_Witness ==
    /\ rxresult = "TooLargePacket"
    /\ conn = "failed"
    /\ delivered # <<>>
    /\ Len(declared) = Len(delivered) + 1


----------------------------------------------------------------------------
(* Errors of the dispatcher, checked under Spec *)

\* C11: error propagation. Once run0 has returned an error, the queue it
\* owned is gone; the one step run takes writes DISCONNECT(2, "unexpected")
\* directly to the sink (stamp 0, not through the outbound queue) or fails
\* to write it, and returns run0's error either way; after run has
\* returned nothing more is written.
C11_ErrorPropagation ==
    [][/\ pc' = "run_err" => (outq' = <<>> /\ err' # "none")
       /\ (pc = "run_err" /\ pc' # pc) =>
            /\ pc' = "done"
            /\ runResult' = err
            /\ outq' = <<>>
            /\ \/ wire' = Append(wire, Direct(Disconnect(2, "unexpected")))
               \/ wire' = wire /\ txFailed'
       /\ pc = "done" => wire' = wire]_vars

\* run returned an error after the DISCONNECT, and a message that had been
\* enqueued was never written
C11_Witness ==
    /\ pc = "done"
    /\ runResult \notin {"running", "Ok"}
    /\ wire # <<>>
    /\ Last(wire) = Direct(Disconnect(2, "unexpected"))
    /\ Len(Queued(wire)) < nextId - 1

\* C12: no algorithm overlap. When run has returned the key-exchange error
\* that the negotiation of a client KEXINIT sharing no algorithm with the
\* server's preference in some category raised, the server has written a
\* DISCONNECT with reason code 3 (unless that write failed).
C12_NoOverlapDisconnect3 ==
    (pc = "done" /\ runResult = "KexError" /\ kexCause = "NegotiateError") =>
        \/ txFailed
        \/ \E i \in 1..Len(wire) : wire[i].m.kind = "Disconnect" /\ wire[i].m.n = 3

\* Unimplemented replies to the request with sequence number s, written or queued
UnimplementedFor(s) ==
    {i \in 1..Len(wire \o outq) :
        (wire \o outq)[i].re = s /\ (wire \o outq)[i].m.kind = "Unimplemented"}

\* the sequence numbers that have an UNIMPLEMENTED reply, written or queued
UnimplementedRe ==
    {(wire \o outq)[i].re : i \in {j \in 1..Len(wire \o outq) :
                                      (wire \o outq)[j].m.kind = "Unimplemented"}}

\* the message the key exchange is waiting for at this point, if any
ExpectedInKex ==
    IF pc = "kex_init" THEN {"KexEcdhInit"}
    ELSE IF pc = "kex_newkeys" THEN {"Newkeys"}
    ELSE {}

\* C15 as stated: every step that consumes an inbound message of a type run0
\* has no arm for (and that no key exchange is waiting for) prepares the
\* UNIMPLEMENTED reply carrying that message's sequence number, and run0
\* goes on.
C15_EveryUnhandledUnimplemented ==
    [][(/\ inbound # <<>>
        /\ NextInbound(inbound).item.m.kind \in NoArmKinds \ ExpectedInKex
        /\ handled' = Append(handled, NextInbound(inbound).item.seq)) =>
            /\ reply' = Unimplemented(NextInbound(inbound).item.seq)
            /\ pc' = "send"]_vars

\* C15, for the messages the select loop itself takes: a message of a type
\* run0 has no arm for makes the default arm prepare UNIMPLEMENTED with the
\* sequence number of that very message; the send that follows enqueues it
\* once, as the reply to that message, and the loop polls again. A message
\* of such a type consumed inside on_kexinit is answered by no
\* UNIMPLEMENTED: it fails the key exchange unless it is the message the
\* exchange expects.
C15_UnhandledInLoop ==
    [][/\ (/\ pc = "select"
           /\ inbound # <<>>
           /\ NextInbound(inbound).item.m.kind \in NoArmKinds
           /\ handled' = Append(handled, NextInbound(inbound).item.seq)) =>
            /\ reply' = Unimplemented(NextInbound(inbound).item.seq)
            /\ cur' = NextInbound(inbound).item
            /\ pc' = "send"
            /\ outq' = outq /\ wire' = wire
       /\ (pc = "send" /\ reply.kind = "Unimplemented" /\ pc' # pc) =>
            /\ outq' = Append(outq, Entry(nextId, cur.seq, Unimplemented(cur.seq)))
            /\ pc' = "select"
       /\ (/\ pc \in KexPcs
           /\ inbound # <<>>
           /\ NextInbound(inbound).item.m.kind \in NoArmKinds
           /\ handled' = Append(handled, NextInbound(inbound).item.seq)) =>
            /\ NextInbound(inbound).item.seq \notin UnimplementedRe'
            /\ pc' \in {"kex_newkeys", "select", "run_err"}
            /\ pc' = "run_err" => err' \in {"KexError", "MessageError", "ChangeKeyError"}
       /\ \A s \in 0..MaxInbound : Cardinality(UnimplementedFor(s)') <= 1]_vars

\* the UNIMPLEMENTED for an unknown packet that was not the first one is
\* queued, and the loop polls again
C15_Witness ==
    /\ pc = "select"
    /\ \E i \in 1..Len(outq) :
        outq[i].m.kind = "Unimplemented" /\ outq[i].m.n = outq[i].re /\ outq[i].re > 0

\* C18: handling CHANNEL_WINDOW_ADJUST sends nothing to the peer: no message
\* written or queued as the answer to an inbound message is a
\* CHANNEL_WINDOW_ADJUST, and the step that takes one prepares no reply.
C18_WindowAdjustSilent ==
    /\ \A i \in 1..Len(wire \o outq) :
          (wire \o outq)[i].re >= 0 => (wire \o outq)[i].m.kind # "ChannelWindowAdjust"
    /\ cur.m.kind = "ChannelWindowAdjust" => reply = NoMsg


----------------------------------------------------------------------------
(* Properties of the authentication and channel arms, checked under SpecConn *)

\* C13: a handler error is never fatal. Every return of an awaited handler
\* operation leaves run0 in its loop: the task goes on to send a reply or to
\* poll again, and run0 records no error.
C13_HandlerErrorNotFatal ==
    [][(pc = "handler" /\ pc' # pc) =>
          /\ pc' \in {"send", "select"}
          /\ err' = "none"]_vars

\* C14: rejected authentication. When the handler operation awaited for a
\* USERAUTH_REQUEST of method none, password or publickey (no signature)
\* returns Reject, the task prepares USERAUTH_FAILURE with the methods
\* publickey, password and partial success false, enqueues it once as the
\* reply to that request, and polls again: run0 has not returned.
C14_RejectedAuth ==
    [][/\ (/\ pc = "handler" /\ pc' # pc
           /\ cur.m.kind = "UserauthRequest"
           /\ cur.m.sub \in {"none", "password", "publickey"}
           /\ hresult' = "Reject") =>
            /\ pc' = "send"
            /\ reply' = UserauthFailure(FALSE)
            /\ reply'.sub = "publickey,password"
            /\ cur' = cur
            /\ outq' = outq /\ wire' = wire
       /\ (/\ pc = "send" /\ pc' # pc
           /\ cur.m.kind = "UserauthRequest"
           /\ cur.m.sub \in {"none", "password", "publickey"}
           /\ hresult = "Reject") =>
            /\ outq' = Append(outq, Entry(nextId, cur.seq, UserauthFailure(FALSE)))
            /\ pc' = "select"
            /\ runResult' = "running"]_vars

\* after a rejected request was answered, a second USERAUTH_REQUEST has been
\* taken and rejected too
C14_Witness ==
    /\ pc = "send"
    /\ cur.m.kind = "UserauthRequest"
    /\ cur.m.sub = "password"
    /\ hresult = "Reject"
    /\ reply = UserauthFailure(FALSE)
    /\ \E i \in 1..Len(wire \o outq) :
        /\ (wire \o outq)[i].m = UserauthFailure(FALSE)
        /\ (wire \o outq)[i].re < cur.seq

\* the select loop takes the oldest received message, of one of the kinds
Takes(kinds) ==
    /\ pc = "select"
    /\ inbound # <<>>
    /\ NextInbound(inbound).item.m.kind \in kinds
    /\ handled' = Append(handled, NextInbound(inbound).item.seq)

\* C16: IGNORE and DEBUG are dropped. The step that takes one prepares and
\* enqueues no message, calls no handler and leaves the connection's state
\* as it was: the loop polls again.
C16_IgnoreDebugDropped ==
    [][Takes({"Ignore", "Debug"}) =>
          /\ pc' = "select"
          /\ reply' = NoMsg
          /\ UNCHANGED <<outq, wire, nextId, channel_handles, auth_handle,
                         keyEpoch, err, runResult>>]_vars

\* C17: GLOBAL_REQUEST is answered with REQUEST_FAILURE exactly when
\* want_reply is set: the step that takes one with want_reply prepares
\* REQUEST_FAILURE, the step that takes one without prepares nothing and the
\* loop polls again.
C17_GlobalRequestReply ==
    [][Takes({"GlobalRequest"}) =>
          IF NextInbound(inbound).item.m.wr
          THEN pc' = "send" /\ reply' = RequestFailure
          ELSE pc' = "select" /\ reply' = NoMsg /\ outq' = outq]_vars

\* the entries written or queued that answer the request with sequence number s
RepliesTo(s) == {i \in 1..Len(wire \o outq) : (wire \o outq)[i].re = s}

\* C19: replies to CHANNEL_REQUEST on a registered channel. A request of a
\* type other than pty-req, shell, exec calls no handler: with want_reply
\* the task prepares CHANNEL_FAILURE, without it the loop polls again. A
\* request of one of the three types awaits its handler; when that returns,
\* with want_reply the task prepares CHANNEL_SUCCESS for Ok and
\* CHANNEL_FAILURE for an error, without want_reply nothing. The prepared
\* reply is enqueued once, for the channel of the request; no request has
\* more than one reply.
C19_ChannelRequestReply ==
    [][/\ (Takes({"ChannelRequest"}) /\ NextInbound(inbound).item.m.ch \in channel_handles) =>
            LET m == NextInbound(inbound).item.m IN
            /\ outq' = outq
            /\ IF m.sub \in {"pty-req", "shell", "exec"}
               THEN pc' = "handler" /\ reply' = NoMsg
               ELSE IF m.wr
                    THEN pc' = "send" /\ reply' = ChannelFailure(m.ch)
                    ELSE pc' = "select" /\ reply' = NoMsg
       /\ (pc = "handler" /\ pc' # pc /\ cur.m.kind = "ChannelRequest") =>
            /\ outq' = outq
            /\ IF cur.m.wr
               THEN /\ pc' = "send"
                    /\ reply' = IF hresult' = "Ok" THEN ChannelSuccess(cur.m.ch)
                                 ELSE ChannelFailure(cur.m.ch)
               ELSE pc' = "select" /\ reply' = NoMsg
       /\ (pc = "send" /\ pc' # pc /\ cur.m.kind = "ChannelRequest") =>
            /\ cur.m.wr
            /\ reply \in {ChannelSuccess(cur.m.ch), ChannelFailure(cur.m.ch)}
            /\ outq' = Append(outq, Entry(nextId, cur.seq, reply))
            /\ pc' = "select"
       /\ \A s \in 0..MaxInbound : Cardinality(RepliesTo(s)') <= 1]_vars

\* the handler of a shell request with want_reply returned an error and
\* CHANNEL_FAILURE is about to be enqueued
C19_Witness ==
    /\ pc = "send"
    /\ cur.m = ChannelRequest(0, "shell", TRUE)
    /\ hresult = "Err"
    /\ reply = ChannelFailure(0)

\* C20: unknown recipient channel. The step that takes a CHANNEL_REQUEST,
\* CHANNEL_DATA, CHANNEL_EOF or CHANNEL_CLOSE for a channel that is not
\* registered makes run0 return UnknownChannelId: no handler is awaited, the
\* registry is as before, no reply is prepared, enqueued or written. The
\* only message that follows is run's DISCONNECT, and run returns the error.
C20_UnknownChannel ==
    [][/\ (/\ Takes({"ChannelRequest", "ChannelData", "ChannelEof", "ChannelClose"})
           /\ NextInbound(inbound).item.m.ch \notin channel_handles) =>
            /\ pc' = "run_err"
            /\ err' = "UnknownChannelId"
            /\ UNCHANGED <<channel_handles, hresult, wire, reply>>
            /\ reply' = NoMsg
            /\ outq' = <<>>
            /\ RepliesTo(NextInbound(inbound).item.seq) = {}
       /\ (pc = "run_err" /\ err = "UnknownChannelId" /\ pc' # pc) =>
            /\ pc' = "done"
            /\ runResult' = "UnknownChannelId"
            /\ channel_handles' = channel_handles
            /\ \/ wire' = wire
               \/ wire' = Append(wire, Direct(Disconnect(2, "unexpected")))]_vars

\* a message for a channel that was opened and closed again has failed
C20_Witness ==
    /\ pc = "run_err"
    /\ err = "UnknownChannelId"
    /\ channel_handles = {}
    /\ hresult = "Ok"
    /\ Len(handled) = 3


----------------------------------------------------------------------------
(* Properties of the channel registry and the phases, checked under SpecConn *)

\* C21: local channel ids are fresh. The step that takes a CHANNEL_OPEN for
\* a session keeps every record the registry holds and adds one under an id
\* no open channel has, whatever sender_channel the peer chose.
C21_FreshLocalId ==
    [][(Takes({"ChannelOpen"}) /\ NextInbound(inbound).item.m.sub = "session") =>
          /\ channel_handles \subseteq channel_handles'
          /\ Cardinality(channel_handles') = Cardinality(channel_handles) + 1]_vars

\* C22: inbound flow control. On every channel the CHANNEL_DATA bytes handed
\* to the handler never exceed what the server has granted the peer: data
\* longer than the local window is not delivered.
C22_LocalWindow == \A c \in ChanIds : granted[c] >= 0

\* C23: channel lifecycle. While run0 is in its loop, the record of a channel
\* leaves the registry on the peer's CHANNEL_CLOSE only if the server's own
\* CHANNEL_CLOSE for that channel has been enqueued or written.
C23_ClosedBothWays ==
    [][Takes({"ChannelClose"}) =>
          \A c \in channel_handles \ channel_handles' :
              \E i \in 1..Len(wire \o outq) : (wire \o outq)[i].m = ChannelClose(c)]_vars

\* C24: phase ordering. A channel handler is awaited, or a
\* CHANNEL_OPEN_CONFIRMATION has been enqueued or written, only on a connection
\* that has already enqueued or written USERAUTH_SUCCESS.
C24_AuthBeforeChannels ==
    LET out == wire \o outq
        InChannelHandler ==
            /\ pc = "handler"
            /\ cur.m.kind \in {"ChannelOpen", "ChannelRequest", "ChannelData",
                                "ChannelEof", "ChannelClose"}
        Confirmed == \E i \in 1..Len(out) : out[i].m.kind = "ChannelOpenConfirmation"
    IN  (InChannelHandler \/ Confirmed) =>
            \E i \in 1..Len(out) : out[i].m = UserauthSuccess

\* C25: no panic crosses the API boundary: run never unwinds, whatever the
\* peer sends, whenever the idle timeout fires and whether or not a timeout
\* was configured.
C25_NoPanic == pc # "panicked"

\* C26: new keys take effect exactly at NEWKEYS. Whenever the server writes a
\* packet, the transport state in use has been replaced once for every
\* NEWKEYS the server has already written: nothing follows the server's
\* NEWKEYS under the old state, a DISCONNECT after a failed installation
\* included.
C26_NewKeysAtNewkeys ==
    [][Len(wire') > Len(wire) =>
          keyEpoch = Cardinality({i \in 1..Len(wire) : wire[i].m = Newkeys})]_vars

\* connection-protocol messages: neither key-exchange nor transport messages
ConnectionKinds ==
    {"ServiceRequest", "UserauthRequest", "GlobalRequest", "ChannelOpen", "ChannelRequest",
     "ChannelWindowAdjust", "ChannelData", "ChannelEof", "ChannelClose"}

\* on_kexinit reads a connection-protocol message
KexTakes(kinds) ==
    /\ pc \in KexPcs
    /\ inbound # <<>>
    /\ NextInbound(inbound).item.m.kind \in kinds
    /\ handled' = Append(handled, NextInbound(inbound).item.seq)

\* C29: a connection-protocol message read while a key exchange is in
\* progress is a protocol error. The step that reads it calls no handler,
\* registers no channel, prepares no reply, installs no keys and fails the
\* key exchange with KexError; from there run only returns that error.
C29_NonKexDuringKex ==
    [][/\ KexTakes(ConnectionKinds) =>
            /\ pc' = "run_err"
            /\ err' = "KexError"
            /\ kexCause' = "UnexpectedMsg"
            /\ keyEpoch' = keyEpoch
            /\ channel_handles' = channel_handles
            /\ reply' = reply
            /\ wire' = wire
       /\ pc = "run_err" =>
            /\ pc' \in {"run_err", "done"}
            /\ keyEpoch' = keyEpoch
            /\ pc' = "done" => runResult' = err /\ err # "none"]_vars

C29_Witness ==
    /\ pc = "done"
    /\ runResult = "KexError"
    /\ kexCause = "UnexpectedMsg"
    /\ kexGot \in ConnectionKinds
    /\ keyEpoch = 0
    /\ channel_handles = {}

\* C30: host-key selection is satisfiable by the loaded host keys. Whenever
\* the client's list and the server's preference share an algorithm that a
\* loaded host key is of, the selection ends with such an algorithm.
C30_HostkeySatisfiable ==
    LET usable == {a \in HostKeyAlgorithms :
                      /\ Contains(client_hostkey, a)
                      /\ Contains(preference, a)
                      /\ Contains(hostkeys, a)}
    IN  (selected # "pending" /\ usable # {}) => selected \in usable

\* C27: rekey happens at a packet boundary only. At every step that replaces
\* the transport state the reader is in FillFirst with an empty plaintext
\* buffer, the last packet it returned is the peer's NEWKEYS, it has decrypted
\* the first block of no packet after that one, and the writer holds no
\* partially built packet; every packet, those after NEWKEYS included, comes
\* out as it was sent.
C27_RekeyAtPacketBoundary ==
    [][/\ (keyEpoch' # keyEpoch \/ <<enc, macalg>>' # <<enc, macalg>>) =>
            /\ rxstate = FillFirst
            /\ rxbuf1 = <<>>
            /\ txbuf1 = <<>>
            /\ delivered # <<>>
            /\ Last(delivered) = NewkeysPayload
            /\ Len(declared) = Len(delivered)
            /\ UNCHANGED <<rxstate, rxbuf0, rxbuf1, rxseq, txbuf0, txbuf1, delivered>>
       /\ IsPrefix(delivered', sent')
       /\ rxresult' \in {"open", "None"}]_vars

\* the packet after NEWKEYS was already in the reader's buffer, undecrypted,
\* when the state was replaced
C27_Witness ==
    /\ keyEpoch = 1
    /\ Len(sent) = 2
    /\ sent[1] = NewkeysPayload
    /\ delivered = <<NewkeysPayload>>
    /\ txbuf0 = <<>> /\ sock = <<>>
    /\ rxbuf0 # <<>>
    /\ rxstate = FillFirst /\ rxbuf1 = <<>>
    /\ declared = <<Len(PlainPacket(NewkeysPayload, block_size("none"), 0)) - 4>>
    /\ enc = "aes-ctr"

\* C28: sequence numbers. The reader's counter advances, by one, only in a
\* call of poll_next in which the MAC of the packet has been verified: a
\* packet whose MAC does not verify leaves the counter where it was.
C28_AdvanceAfterMac ==
    [][rxseq' # rxseq => rxseq' = rxseq + 1 /\ rxresult' # "MacMismatch"]_vars

\* C31: USERAUTH_SUCCESS only after the handler accepted. The step that
\* prepares USERAUTH_SUCCESS as the reply to a USERAUTH_REQUEST is the return
\* of the auth operation awaited for that request, with Accept.
C31_SuccessOnlyOnAccept ==
    [][(pc # "send" /\ pc' = "send" /\ reply' = UserauthSuccess) =>
          /\ pc = "handler"
          /\ cur.m.kind = "UserauthRequest"
          /\ hresult' = "Accept"]_vars

\* C32: the dispatcher never blocks forever on its own outbound queue.
\* Whenever it waits inside send with the queue full, a step that takes a
\* message out of the queue, or that completes the send, is possible.
C32_SendNeverStuck ==
    (pc = "send" /\ Len(outq) >= QueueCap) => ENABLED (Drain \/ SendReply)

\* C33: run returns after the peer closed the socket. When the inbound
\* stream has ended, nothing is buffered and the outbound queue is empty,
\* the loop of run0 can take a step that leaves the select: it does not
\* depend on a handler enqueueing another message.
C33_ReturnsAfterStreamEnd ==
    (pc = "select" /\ rxEnded /\ inbound = <<>> /\ outq = <<>>) =>
        ENABLED (Next /\ pc' # pc)

\* C34: buffered packets are delivered before the end of the stream. When
\* the reader reports the end of an untampered stream, it has delivered every
\* packet that was sent, in order: no complete packet is left in its buffer.
C34_DeliveredBeforeEnd ==
    (rxresult = "None" /\ tamper = NoTamper) => delivered = sent

\* C35: no lost wakeup in the reader. A call of poll_next in which the socket
\* returned bytes does not return Pending: it yields an item or an error, so
\* that Pending is returned only after the socket itself returned Pending.
C35_PendingOnlyAfterSocketPending ==
    [][rdTotal' > rdTotal => (delivered' # delivered \/ rxresult' # "open")]_vars

\* C36: a refused CHANNEL_OPEN leaves the registry as it was. While the
\* CHANNEL_OPEN_FAILURE prepared for a CHANNEL_OPEN waits to be enqueued, the
\* registry holds exactly the channels it held when that request was taken.
C36_FailureLeavesRegistry ==
    (pc = "send" /\ cur.m.kind = "ChannelOpen" /\ reply.kind = "ChannelOpenFailure") =>
        channel_handles = registryBefore

====
